---- MODULE Spec2Model ----
(***************************************************************************)
(* A model of langtable.py: the identifier normaliser, the three read-only *)
(* tables and the ranked queries list_locales, list_keyboards and          *)
(* list_consolefonts.                                                      *)
(*                                                                         *)
(* Python strings are sequences of one-character strings, so that          *)
(* str.replace, the locale regular expression and key concatenation are    *)
(* computed character by character.  Python's None is the sequence         *)
(* <<"None">>, which no string equals because its only element is not a    *)
(* single character.  The source is Python 2: "/" on two ints is floor     *)
(* division, ints are unbounded, and a dict is iterated in an order the    *)
(* language does not define.                                               *)
(***************************************************************************)
EXTENDS Integers, Sequences, FiniteSets, TLC

VARIABLES
    _territories_db,   \* territoryId -> territory_db_item
    _languages_db,     \* languageId or compound key -> language_db_item
    _keyboards_db,     \* keyboardId -> keyboard_db_item
    pc,                \* "idle", or the name of the function that has just returned
    args,              \* the arguments of that call
    locals,            \* the local variables of that call when it returned
    result             \* the value it returned

vars == <<_territories_db, _languages_db, _keyboards_db, pc, args, locals, result>>

tables == <<_territories_db, _languages_db, _keyboards_db>>

(***************************************************************************)
(* Strings                                                                 *)
(***************************************************************************)
None == <<"None">>

\* Python truth value of an optional string: None and "" are false.
Truthy(x) == x # None /\ x # <<>>

LowerCase == {"a", "b", "c", "d", "e", "f", "g", "h", "i", "j", "k", "l", "m",
              "n", "o", "p", "q", "r", "s", "t", "u", "v", "w", "x", "y", "z"}

UpperCase == {"A", "B", "C", "D", "E", "F", "G", "H", "I", "J", "K", "L", "M",
              "N", "O", "P", "Q", "R", "S", "T", "U", "V", "W", "X", "Y", "Z"}

\* The characters of the model's identifiers in ascending byte order, which
\* is the order Python 2 compares str values by.
ByteOrder == <<".", "0", "1", "8", "@", "A", "B", "C", "D", "E", "F", "G", "H",
               "I", "J", "K", "L", "M", "N", "O", "P", "Q", "R", "S", "T", "U",
               "V", "W", "X", "Y", "Z", "_", "a", "b", "c", "d", "e", "f", "g",
               "h", "i", "j", "k", "l", "m", "n", "o", "p", "q", "r", "s", "t",
               "u", "v", "w", "x", "y", "z">>

Ord(ch) == CHOOSE i \in 1..Len(ByteOrder) : ByteOrder[i] = ch

\* a < b for two Python 2 str values: the first differing byte decides, and a
\* proper prefix is smaller.
StrLess(a, b) ==
    \E i \in 1..(Len(b)) :
        /\ \A j \in 1..(i - 1) : j <= Len(a) /\ a[j] = b[j]
        /\ i - 1 <= Len(a)
        /\ (i > Len(a) \/ Ord(a[i]) < Ord(b[i]))

\* old occurs in s at position i
OccursAt(s, old, i) ==
    /\ i + Len(old) - 1 <= Len(s)
    /\ \A j \in 1..Len(old) : s[i + j - 1] = old[j]

RECURSIVE ReplaceFrom(_, _, _, _)
ReplaceFrom(s, old, new, i) ==
    IF i > Len(s) THEN <<>>
    ELSE IF OccursAt(s, old, i)
         THEN new \o ReplaceFrom(s, old, new, i + Len(old))
         ELSE <<s[i]>> \o ReplaceFrom(s, old, new, i + 1)

\* s.replace(old, new): every non-overlapping occurrence, leftmost first.
str_replace(s, old, new) == ReplaceFrom(s, old, new, 1)

(***************************************************************************)
(* _cldr_locale_pattern                                                    *)
(***************************************************************************)
\* "$": the end of the string, or just before a newline that ends it.
AtEnd(s, i) == i = Len(s) + 1 \/ (i = Len(s) /\ s[i] = "\n")

\* (?=$|@
EndOrOptions(s, i) == AtEnd(s, i) \/ (i <= Len(s) /\ s[i] = "@")

\* _[A-Z]{2}(?=$|@) at position i
TerritoryAt(s, i) ==
    /\ i + 2 <= Len(s)
    /\ s[i] = "_"
    /\ s[i + 1] \in UpperCase
    /\ s[i + 2] \in UpperCase
    /\ EndOrOptions(s, i + 3)

\* _[A-Z][a-z]{3}(?=$|@|_[A-Z]{2}(?=$|@)) at position i
ScriptAt(s, i) ==
    /\ i + 4 <= Len(s)
    /\ s[i] = "_"
    /\ s[i + 1] \in UpperCase
    /\ \A j \in (i + 2)..(i + 4) : s[j] \in LowerCase
    /\ (EndOrOptions(s, i + 5) \/ TerritoryAt(s, i + 5))

\* the lookahead that closes the language group, at position i
LanguageFollow(s, i) == EndOrOptions(s, i) \/ ScriptAt(s, i) \/ TerritoryAt(s, i)

\* [a-z]{2,3} followed by that lookahead: greedy, three letters are tried
\* before two; 0 when the pattern does not match at the start of s.
LanguageLen(s) ==
    IF /\ Len(s) >= 3
       /\ \A j \in 1..3 : s[j] \in LowerCase
       /\ LanguageFollow(s, 4)
    THEN 3
    ELSE IF /\ Len(s) >= 2
            /\ \A j \in 1..2 : s[j] \in LowerCase
            /\ LanguageFollow(s, 3)
         THEN 2
         ELSE 0

\* _cldr_locale_pattern.match(s): whether it matched and the three named
\* groups (None for a group that took no part in the match).
\* The optional territory group, tried at position t behind a language of n
\* letters and, if hasScript, its script.
TerritoryGroup(s, n, hasScript, t) ==
    [match     |-> n > 0,
     language  |-> IF n > 0 THEN SubSeq(s, 1, n) ELSE None,
     script    |-> IF hasScript THEN SubSeq(s, n + 2, n + 5) ELSE None,
     territory |-> IF n > 0 /\ TerritoryAt(s, t) THEN SubSeq(s, t + 1, t + 2) ELSE None]

\* The optional script group, tried behind a language of n letters.
ScriptGroup(s, n, hasScript) ==
    TerritoryGroup(s, n, hasScript, IF hasScript THEN n + 6 ELSE n + 1)

LanguageGroup(s, n) == ScriptGroup(s, n, n > 0 /\ ScriptAt(s, n + 1))

_cldr_locale_pattern(s) == LanguageGroup(s, LanguageLen(s))

(***************************************************************************)
(* _parse_and_split_languageId                                             *)
(***************************************************************************)
\* The dict literal, as the sequence of its (key, value) pairs.
\* The alias table without its entry for 'iqtelif'.
GlibcScriptIdsWithoutIqtelif ==
    << <<(<<"l", "a", "t", "i", "n">>), (<<"L", "a", "t", "n">>)>>,
       <<(<<"c", "y", "r", "i", "l", "l", "i", "c">>), (<<"C", "y", "r", "l">>)>>,
       <<(<<"d", "e", "v", "a", "n", "a", "g", "a", "r", "i">>), (<<"D", "e", "v", "a">>)>> >>

_glibc_script_ids ==
    << <<(<<"l", "a", "t", "i", "n">>), (<<"L", "a", "t", "n">>)>>,
       <<(<<"i", "q", "t", "e", "l", "i", "f">>), (<<"L", "a", "t", "n">>)>>,
       <<(<<"c", "y", "r", "i", "l", "l", "i", "c">>), (<<"C", "y", "r", "l">>)>>,
       <<(<<"d", "e", "v", "a", "n", "a", "g", "a", "r", "i">>), (<<"D", "e", "v", "a">>)>> >>

\* The loop over _glibc_script_ids applied to one optional string: the
\* replacement is made only while the string is true.
RECURSIVE ReplaceAliases(_, _)
ReplaceAliases(s, k) ==
    IF k > Len(_glibc_script_ids) THEN s
    ELSE ReplaceAliases(
            IF Truthy(s)
            THEN str_replace(s, _glibc_script_ids[k][1], _glibc_script_ids[k][2])
            ELSE s,
            k + 1)

\* No match object: match() returned None, or was not called.
NoMatch == [match |-> FALSE, language |-> None, script |-> None, territory |-> None]

\* "if (languageId): match = _cldr_locale_pattern.match(languageId)"
MatchIfTrue(languageId) ==
    IF Truthy(languageId) THEN _cldr_locale_pattern(languageId) ELSE NoMatch

\* SplitMatch assigning the three groups of a match without the tests
\* "if match.group('script')" and "if match.group('territory')".
SplitMatchOverwritesHints(languageId, scriptId, territoryId, match) ==
    IF match.match
    THEN <<match.language, match.script, match.territory>>
    ELSE <<languageId, scriptId, territoryId>>

\* SplitMatch returning, when there is no match, the None that match() returned
\* in place of the identifier.
SplitMatchDropsUnmatched(languageId, scriptId, territoryId, match) ==
    IF match.match
    THEN <<match.language,
           IF Truthy(match.script) THEN match.script ELSE scriptId,
           IF Truthy(match.territory) THEN match.territory ELSE territoryId>>
    ELSE <<None, scriptId, territoryId>>

\* The body of "if (languageId):" and the return, given the match.
SplitMatch(languageId, scriptId, territoryId, match) ==
    IF match.match
    THEN <<match.language,
           IF Truthy(match.script) THEN match.script ELSE scriptId,
           IF Truthy(match.territory) THEN match.territory ELSE territoryId>>
    ELSE <<languageId, scriptId, territoryId>>

\* The function behind its alias loop.
SplitReplaced(languageId, scriptId, territoryId) ==
    SplitMatch(languageId, scriptId, territoryId, MatchIfTrue(languageId))

_parse_and_split_languageId(languageId, scriptId, territoryId) ==
    SplitReplaced(ReplaceAliases(languageId, 1), ReplaceAliases(scriptId, 1), territoryId)

(***************************************************************************)
(* Ranked lists                                                            *)
(***************************************************************************)
cut_off_factor == 1000

\* extra_bonus no larger than the cut-off factor.
ExtraBonusAsCutOff == cut_off_factor

extra_bonus == 1000000

EmptyDict == <<>>

\* Every order in which the keys of a dict can be iterated: a Python 2 dict
\* hands out its keys in an order the language leaves open.
IterationOrders(dict) ==
    LET keys == DOMAIN dict
        n == Cardinality(keys)
    IN  {order \in [1..n -> keys] : \A i, j \in 1..n : order[i] = order[j] => i = j}

\* sorted(..., reverse=...) keeps the order of items that compare equal:
\* item x goes behind every item already placed that does not sort after it.
InsertRanked(sorted_list, x, reverse) ==
    LET after(y) == IF reverse THEN y[2] < x[2] ELSE y[2] > x[2]
        behind == {i \in 1..Len(sorted_list) : after(sorted_list[i])}
        at == IF behind = {} THEN Len(sorted_list) + 1
              ELSE CHOOSE i \in behind : \A j \in behind : i <= j
    IN  SubSeq(sorted_list, 1, at - 1) \o <<x>> \o SubSeq(sorted_list, at, Len(sorted_list))

RECURSIVE SortRanked(_, _, _, _)
SortRanked(dict, order, n, reverse) ==
    IF n = 0 THEN <<>>
    ELSE InsertRanked(SortRanked(dict, order, n - 1, reverse),
                      <<order[n], dict[order[n]]>>, reverse)

\* _dictionary_to_ranked_list sorting with reverse=False.
DictionaryToRankedListAscending(dict, order) == SortRanked(dict, order, Len(order), FALSE)

\* _dictionary_to_ranked_list(dict) with reverse=True, the only way it is
\* called; order is the order in which dict is iterated.
_dictionary_to_ranked_list(dict, order) == SortRanked(dict, order, Len(order), TRUE)

_ranked_list_to_list(list) == [i \in 1..Len(list) |-> list[i][1]]

\* The indices at which the division of _make_ranked_list_concise has a
\* zero divisor.
ZeroDivisors(ranked_list) ==
    {i \in 1..(Len(ranked_list) - 1) : ranked_list[i + 1][2] = 0}

\* The indices at which the loop of _make_ranked_list_concise would cut.
CutIndices(ranked_list) ==
    {i \in 1..(Len(ranked_list) - 1) :
        /\ ranked_list[i + 1][2] # 0
        /\ ranked_list[i][2] \div ranked_list[i + 1][2] > cut_off_factor}

\* The loop raises ZeroDivisionError when it reaches a zero divisor before
\* it reaches an index at which it cuts and breaks.
ConciseRaises(ranked_list) ==
    \E i \in ZeroDivisors(ranked_list) : \A j \in CutIndices(ranked_list) : i < j

\* _make_ranked_list_concise keeping what lies behind the cut.
ConciseKeepsTail(ranked_list) ==
    IF ~(Len(ranked_list) > 1) THEN ranked_list
    ELSE IF CutIndices(ranked_list) = {} THEN ranked_list
    ELSE SubSeq(ranked_list,
                1 + CHOOSE i \in CutIndices(ranked_list) :
                        \A j \in CutIndices(ranked_list) : i <= j,
                Len(ranked_list))

\* _make_ranked_list_concise cutting behind the pair in place of inside it.
ConciseCutsBehindPair(ranked_list) ==
    IF ~(Len(ranked_list) > 1) THEN ranked_list
    ELSE IF CutIndices(ranked_list) = {} THEN ranked_list
    ELSE SubSeq(ranked_list, 1,
                1 + CHOOSE i \in CutIndices(ranked_list) :
                        \A j \in CutIndices(ranked_list) : i <= j)

_make_ranked_list_concise(ranked_list) ==
    IF ~(Len(ranked_list) > 1) THEN ranked_list
    ELSE IF CutIndices(ranked_list) = {} THEN ranked_list
    ELSE SubSeq(ranked_list, 1,
                CHOOSE i \in CutIndices(ranked_list) :
                    \A j \in CutIndices(ranked_list) : i <= j)

(***************************************************************************)
(* list_locales, list_keyboards, list_consolefonts                         *)
(***************************************************************************)
Join2(a, b) == a \o <<"_">> \o b

Join3(a, b, c) == a \o <<"_">> \o b \o <<"_">> \o c

\* ResolveLanguageId with skipTerritory also set in the lang_script branch.
ResolveScriptKeySkipsTerritory(languageId, scriptId, territoryId) ==
    IF /\ Truthy(languageId) /\ Truthy(scriptId) /\ Truthy(territoryId)
       /\ Join3(languageId, scriptId, territoryId) \in DOMAIN _languages_db
    THEN [languageId |-> Join3(languageId, scriptId, territoryId), skipTerritory |-> TRUE]
    ELSE IF /\ Truthy(languageId) /\ Truthy(scriptId)
            /\ Join2(languageId, scriptId) \in DOMAIN _languages_db
    THEN [languageId |-> Join2(languageId, scriptId), skipTerritory |-> TRUE]
    ELSE IF /\ Truthy(languageId) /\ Truthy(territoryId)
            /\ Join2(languageId, territoryId) \in DOMAIN _languages_db
    THEN [languageId |-> Join2(languageId, territoryId), skipTerritory |-> TRUE]
    ELSE [languageId |-> languageId, skipTerritory |-> FALSE]

\* The if/elif chain that replaces languageId by the most specific compound
\* key of _languages_db; the three functions hold the same chain.
ResolveLanguageId(languageId, scriptId, territoryId) ==
    IF /\ Truthy(languageId) /\ Truthy(scriptId) /\ Truthy(territoryId)
       /\ Join3(languageId, scriptId, territoryId) \in DOMAIN _languages_db
    THEN [languageId |-> Join3(languageId, scriptId, territoryId), skipTerritory |-> TRUE]
    ELSE IF /\ Truthy(languageId) /\ Truthy(scriptId)
            /\ Join2(languageId, scriptId) \in DOMAIN _languages_db
    THEN [languageId |-> Join2(languageId, scriptId), skipTerritory |-> FALSE]
    ELSE IF /\ Truthy(languageId) /\ Truthy(territoryId)
            /\ Join2(languageId, territoryId) \in DOMAIN _languages_db
    THEN [languageId |-> Join2(languageId, territoryId), skipTerritory |-> TRUE]
    ELSE [languageId |-> languageId, skipTerritory |-> FALSE]

\* Accumulate without the "*= extra_bonus" line.
AccumulateWithoutExtraBonus(ranked, mapping, bonus) ==
    LET hit == {c \in DOMAIN mapping : mapping[c] # 0}
    IN  [c \in (DOMAIN ranked) \cup hit |->
            IF c \notin hit THEN ranked[c]
            ELSE IF c \notin DOMAIN ranked THEN mapping[c] * bonus
            ELSE ranked[c] * mapping[c] * bonus]

\* Accumulate with rank 0 taken for the lowest rank instead of skipped.
AccumulateRankZeroAsLowest(ranked, mapping, bonus) ==
    LET rank(c) == IF mapping[c] = 0 THEN 1 ELSE mapping[c]
    IN  [c \in (DOMAIN ranked) \cup (DOMAIN mapping) |->
            IF c \notin DOMAIN mapping THEN ranked[c]
            ELSE IF c \notin DOMAIN ranked THEN rank(c) * bonus
            ELSE ranked[c] * rank(c) * extra_bonus * bonus]

\* Accumulate without the test "!= 0".
AccumulateKeepsRankZero(ranked, mapping, bonus) ==
    [c \in (DOMAIN ranked) \cup (DOMAIN mapping) |->
        IF c \notin DOMAIN mapping THEN ranked[c]
        ELSE IF c \notin DOMAIN ranked THEN mapping[c] * bonus
        ELSE ranked[c] * mapping[c] * extra_bonus * bonus]

\* One "for ... in <rank mapping>" loop: a candidate of non-zero rank enters
\* the dict with its rank, or multiplies the weight it already has by its rank
\* and by extra_bonus; either way the bonus is multiplied in.  Every key is
\* visited once and changes only its own entry, so the order does not matter.
Accumulate(ranked, mapping, bonus) ==
    LET hit == {c \in DOMAIN mapping : mapping[c] # 0}
    IN  [c \in (DOMAIN ranked) \cup hit |->
            IF c \notin hit THEN ranked[c]
            ELSE IF c \notin DOMAIN ranked THEN mapping[c] * bonus
            ELSE ranked[c] * mapping[c] * extra_bonus * bonus]

\* The tail the three functions share: sort, cut if concise, drop the weights
\* unless show_weights.
Ranked(ranked, order, concise) ==
    IF concise THEN _make_ranked_list_concise(_dictionary_to_ranked_list(ranked, order))
    ELSE _dictionary_to_ranked_list(ranked, order)

Returned(ranked_list, show_weights) ==
    IF show_weights THEN ranked_list ELSE _ranked_list_to_list(ranked_list)

\* The loop of list_locales over the territory entry, behind the loop over the
\* language entry that left the dict byLanguage.
LocalesByTerritory(p, r, byLanguage, territory_bonus) ==
    [languageId |-> r.languageId, scriptId |-> p[2], territoryId |-> p[3],
     skipTerritory |-> r.skipTerritory,
     ranked |-> IF p[3] \in DOMAIN _territories_db /\ ~r.skipTerritory
                THEN Accumulate(byLanguage, _territories_db[p[3]].locales, territory_bonus)
                ELSE byLanguage]

\* The loop of list_locales over the resolved language entry.
LocalesByLanguage(p, r, language_bonus) ==
    LocalesByTerritory(p, r,
        IF r.languageId \in DOMAIN _languages_db
        THEN Accumulate(EmptyDict, _languages_db[r.languageId].locales, language_bonus)
        ELSE EmptyDict,
        1)

\* list_locales behind _parse_and_split_languageId, which returned p.
LocalesOf(p) == LocalesByLanguage(p, ResolveLanguageId(p[1], p[2], p[3]), 100)

\* The local variables of list_locales when both of its loops have run.
list_locales(languageId, scriptId, territoryId) ==
    LocalesOf(_parse_and_split_languageId(languageId, scriptId, territoryId))

\* The loop of list_keyboards over the territory entry, behind the loop over the
\* language entry that left the dict byLanguage.
KeyboardsByTerritory(p, r, byLanguage, territory_bonus) ==
    [languageId |-> r.languageId, scriptId |-> p[2], territoryId |-> p[3],
     skipTerritory |-> r.skipTerritory,
     ranked |-> IF p[3] \in DOMAIN _territories_db
                THEN Accumulate(byLanguage, _territories_db[p[3]].keyboards, territory_bonus)
                ELSE byLanguage]

\* The loop of list_keyboards over the resolved language entry.
KeyboardsByLanguage(p, r, language_bonus) ==
    KeyboardsByTerritory(p, r,
        IF r.languageId \in DOMAIN _languages_db
        THEN Accumulate(EmptyDict, _languages_db[r.languageId].keyboards, language_bonus)
        ELSE EmptyDict,
        1)

\* list_keyboards behind _parse_and_split_languageId, which returned p.
KeyboardsOf(p) == KeyboardsByLanguage(p, ResolveLanguageId(p[1], p[2], p[3]), 1)

\* The local variables of list_keyboards when both of its loops have run.
list_keyboards(languageId, scriptId, territoryId) ==
    KeyboardsOf(_parse_and_split_languageId(languageId, scriptId, territoryId))

\* The loop of list_consolefonts over the territory entry, behind the loop over the
\* language entry that left the dict byLanguage.
ConsolefontsByTerritory(p, r, byLanguage, territory_bonus) ==
    [languageId |-> r.languageId, scriptId |-> p[2], territoryId |-> p[3],
     skipTerritory |-> r.skipTerritory,
     ranked |-> IF p[3] \in DOMAIN _territories_db
                THEN Accumulate(byLanguage, _territories_db[p[3]].consolefonts, territory_bonus)
                ELSE byLanguage]

\* The loop of list_consolefonts over the resolved language entry.
ConsolefontsByLanguage(p, r, language_bonus) ==
    ConsolefontsByTerritory(p, r,
        IF r.languageId \in DOMAIN _languages_db
        THEN Accumulate(EmptyDict, _languages_db[r.languageId].consolefonts, language_bonus)
        ELSE EmptyDict,
        1)

\* list_consolefonts behind _parse_and_split_languageId, which returned p.
ConsolefontsOf(p) == ConsolefontsByLanguage(p, ResolveLanguageId(p[1], p[2], p[3]), 100)

\* The local variables of list_consolefonts when both of its loops have run.
list_consolefonts(languageId, scriptId, territoryId) ==
    ConsolefontsOf(_parse_and_split_languageId(languageId, scriptId, territoryId))

(***************************************************************************)
(* The tables                                                              *)
(***************************************************************************)
territory_db_item(names, ranks) ==
    [names |-> names, locales |-> ranks, languages |-> EmptyDict, keyboards |-> ranks,
     consolefonts |-> ranks, timezones |-> EmptyDict]

language_db_item(names, ranks) ==
    [iso639_1 |-> None, iso639_2_t |-> None, iso639_2_b |-> None, names |-> names,
     locales |-> ranks, territories |-> EmptyDict, keyboards |-> ranks,
     consolefonts |-> ranks, timezones |-> EmptyDict]

\* Bounds of the tables the model starts from.
MaxRank == 2

sr == <<"s", "r">>

Latn == <<"L", "a", "t", "n">>

RS == <<"R", "S">>

\* The candidate ids of the rank mappings.
Candidates == {<<"a">>, <<"b">>}

LanguageKeys == {Join3(sr, Latn, RS), Join2(sr, Latn), Join2(sr, RS), sr}

\* Rank mappings over some of the candidates, with ranks drawn from R.
RankMappings(R) == UNION {[D -> R] : D \in SUBSET Candidates}

\* Ranks at and next to the two constants the ranking turns on.
ThresholdRanks == {0, 1, cut_off_factor - 1, cut_off_factor, extra_bonus - 1, extra_bonus}

\* TLC's integers end at 2^31 - 1 where Python's do not end: the tables are
\* those in which no weight a query can compute passes that limit.  A weight
\* is largest for a candidate ranked by both sources, rl * rt * 10^8.
Representable(lr, tr) ==
    \A c \in (DOMAIN lr) \cap (DOMAIN tr) :
        \/ lr[c] = 0
        \/ tr[c] = 0
        \/ (lr[c] <= 4 /\ tr[c] <= 4)

\* The tables after loading: every entry of _languages_db holds the rank
\* mapping lr in its three categories, the one territory holds tr.
Loaded(keys, lr, territories, tr) ==
    /\ _languages_db = [k \in keys |-> language_db_item(EmptyDict, lr)]
    /\ _territories_db = [k \in territories |-> territory_db_item(EmptyDict, tr)]
    /\ _keyboards_db = EmptyDict

NoCall == [function |-> "none"]

Idle ==
    /\ pc = "idle"
    /\ args = NoCall
    /\ locals = NoCall
    /\ result = None

\* Three families of tables: every combination of compound keys over
\* non-zero small ranks; every small rank mapping, with ranks of 0 and absent
\* candidates, under the bare language and under one compound key; and the
\* threshold ranks under the same two key sets.
Init ==
    /\ Idle
    /\ \/ \E keys \in SUBSET LanguageKeys, lr \in [Candidates -> 1..MaxRank] :
            \/ \E tr \in [Candidates -> 1..MaxRank] : Loaded(keys, lr, {RS}, tr)
            \/ Loaded(keys, lr, {}, EmptyDict)
       \/ \E keys \in {{sr}, {Join2(sr, RS)}}, lr \in RankMappings(0..MaxRank) :
            \/ \E tr \in RankMappings(0..MaxRank) : Loaded(keys, lr, {RS}, tr)
            \/ Loaded(keys, lr, {}, EmptyDict)
       \/ \E keys \in {{sr}, {Join2(sr, RS)}}, lr, tr \in [Candidates -> ThresholdRanks] :
            /\ Representable(lr, tr)
            /\ Loaded(keys, lr, {RS}, tr)

(***************************************************************************)
(* The calls                                                               *)
(***************************************************************************)
\* The (languageId, scriptId, territoryId) arguments the queries are called with.
QueryArguments ==
    { <<None, None, None>>,
      <<sr, None, None>>,
      <<sr, Latn, None>>,
      <<sr, None, RS>>,
      <<sr, Latn, RS>>,
      <<None, None, RS>>,
      <<Join2(sr, RS), None, None>>,
      <<(<<"s", "r", "_", "r", "s">>), None, RS>> }

\* ListReturn of a list_* function whose dict of weights is the locales dict
\* of the language entry itself, not a dict of its own.
ListReturnAliasesEntry(function, state, a, concise, show_weights, ranked_list) ==
    /\ pc' = function
    /\ args' = [function |-> function, languageId |-> a[1], scriptId |-> a[2],
                territoryId |-> a[3], concise |-> concise, show_weights |-> show_weights]
    /\ locals' = [function |-> function, languageId |-> state.languageId,
                  scriptId |-> state.scriptId, territoryId |-> state.territoryId,
                  skipTerritory |-> state.skipTerritory, ranked |-> state.ranked,
                  ranked_list |-> ranked_list]
    /\ result' = Returned(ranked_list, show_weights)
    /\ _languages_db' = IF state.languageId \in DOMAIN _languages_db
                        THEN [_languages_db EXCEPT ![state.languageId].locales = state.ranked]
                        ELSE _languages_db
    /\ UNCHANGED <<_territories_db, _keyboards_db>>

\* The return of a list_* function whose loops left the local variables
\* state and whose ranked list, sorted and cut, is ranked_list.
ListReturn(function, state, a, concise, show_weights, ranked_list) ==
    /\ pc' = function
    /\ args' = [function |-> function, languageId |-> a[1], scriptId |-> a[2],
                territoryId |-> a[3], concise |-> concise, show_weights |-> show_weights]
    /\ locals' = [function |-> function, languageId |-> state.languageId,
                  scriptId |-> state.scriptId, territoryId |-> state.territoryId,
                  skipTerritory |-> state.skipTerritory, ranked |-> state.ranked,
                  ranked_list |-> ranked_list]
    /\ result' = Returned(ranked_list, show_weights)
    /\ UNCHANGED tables

ZeroDivisionError == << <<"ZeroDivisionError">> >>

\* A list_* function left by the ZeroDivisionError that
\* _make_ranked_list_concise raised on the sorted list ranked_list.
ListRaise(function, state, a, concise, show_weights, ranked_list) ==
    /\ pc' = function
    /\ args' = [function |-> function, languageId |-> a[1], scriptId |-> a[2],
                territoryId |-> a[3], concise |-> concise, show_weights |-> show_weights]
    /\ locals' = [function |-> function, languageId |-> state.languageId,
                  scriptId |-> state.scriptId, territoryId |-> state.territoryId,
                  skipTerritory |-> state.skipTerritory, ranked |-> state.ranked,
                  ranked_list |-> ranked_list]
    /\ result' = ZeroDivisionError
    /\ UNCHANGED tables

ListCall(function, state, a, concise, show_weights) ==
    \E order \in IterationOrders(state.ranked) :
        IF concise /\ ConciseRaises(_dictionary_to_ranked_list(state.ranked, order))
        THEN ListRaise(function, state, a, concise, show_weights,
                       _dictionary_to_ranked_list(state.ranked, order))
        ELSE ListReturn(function, state, a, concise, show_weights,
                        Ranked(state.ranked, order, concise))

ListLocales ==
    /\ pc = "idle"
    /\ \E a \in QueryArguments, concise, show_weights \in BOOLEAN :
        ListCall("list_locales", list_locales(a[1], a[2], a[3]), a, concise, show_weights)

ListKeyboards ==
    /\ pc = "idle"
    /\ \E a \in QueryArguments, concise, show_weights \in BOOLEAN :
        ListCall("list_keyboards", list_keyboards(a[1], a[2], a[3]), a, concise, show_weights)

ListConsolefonts ==
    /\ pc = "idle"
    /\ \E a \in QueryArguments, concise, show_weights \in BOOLEAN :
        ListCall("list_consolefonts", list_consolefonts(a[1], a[2], a[3]), a, concise,
                 show_weights)

\* The caller takes the result and is ready for its next call.
Return ==
    /\ pc # "idle"
    /\ pc' = "idle"
    /\ args' = NoCall
    /\ locals' = NoCall
    /\ result' = None
    /\ UNCHANGED tables

Next == ListLocales \/ ListKeyboards \/ ListConsolefonts \/ Return

Spec == Init /\ [][Next]_vars

(***************************************************************************)
(* What a finished list_* call is compared with                            *)
(***************************************************************************)
ListFunctions == {"list_locales", "list_keyboards", "list_consolefonts"}

ListDone == pc \in ListFunctions

RankOf(mapping, c) == IF c \in DOMAIN mapping THEN mapping[c] ELSE 0

\* The rank mapping of an entry in the category the finished call lists.
CategoryOf(item) ==
    IF pc = "list_locales" THEN item.locales
    ELSE IF pc = "list_keyboards" THEN item.keyboards
    ELSE item.consolefonts

\* The rank mapping of the resolved language entry, empty when there is none.
LanguageRanks ==
    IF locals.languageId \in DOMAIN _languages_db
    THEN CategoryOf(_languages_db[locals.languageId])
    ELSE EmptyDict

\* The rank mapping of the territory entry, empty when there is none.
TerritoryRanks ==
    IF locals.territoryId \in DOMAIN _territories_db
    THEN CategoryOf(_territories_db[locals.territoryId])
    ELSE EmptyDict

\* The territory entry is consulted by list_locales unless skipTerritory is
\* set, and by the other two functions always.
TerritoryConsulted ==
    /\ locals.territoryId \in DOMAIN _territories_db
    /\ (pc = "list_locales" => ~locals.skipTerritory)

ConsultedTerritoryRanks == IF TerritoryConsulted THEN TerritoryRanks ELSE EmptyDict

LanguageBonus == IF pc = "list_keyboards" THEN 1 ELSE 100

\* The i-th element of the returned sequence and its combined weight.
ReturnedId(i) == IF args.show_weights THEN result[i][1] ELSE result[i]

ReturnedWeight(i) == IF args.show_weights THEN result[i][2] ELSE locals.ranked[result[i]]

\* Candidates with a contribution from both sources, and from one only.
DualConfirmed ==
    {c \in Candidates : RankOf(LanguageRanks, c) # 0 /\ RankOf(ConsultedTerritoryRanks, c) # 0}

SingleSource ==
    {c \in Candidates : (RankOf(LanguageRanks, c) # 0) # (RankOf(ConsultedTerritoryRanks, c) # 0)}

\* Every rank of the two consulted mappings is below limit.
RanksBelow(limit) ==
    \A c \in Candidates :
        RankOf(LanguageRanks, c) < limit /\ RankOf(ConsultedTerritoryRanks, c) < limit

(***************************************************************************)
(* C1: the sequence a list_* function returns, with or without weights,    *)
(* concise or not, is ordered by non-increasing combined weight.           *)
(***************************************************************************)
C1_NonIncreasingWeight ==
    ListDone =>
        \A i \in 1..(Len(result) - 1) : ReturnedWeight(i) >= ReturnedWeight(i + 1)

C1_Witness ==
    /\ ListDone
    /\ Len(result) = 2
    /\ ReturnedWeight(1) > ReturnedWeight(2)
    /\ StrLess(ReturnedId(2), ReturnedId(1))

(***************************************************************************)
(* C2: two returned candidates of equal combined weight are ordered by     *)
(* ascending identifier, whatever the order of the accumulator.            *)
(***************************************************************************)
C2_TiesByAscendingId ==
    ListDone =>
        \A i \in 1..(Len(result) - 1) :
            ReturnedWeight(i) = ReturnedWeight(i + 1)
                => StrLess(ReturnedId(i), ReturnedId(i + 1))

(***************************************************************************)
(* C3: the combined weight of a returned candidate is rl * rt * 1,000,000  *)
(* * languageBonus * territoryBonus when the resolved language entry and   *)
(* the consulted territory entry both rank it, rl * languageBonus when     *)
(* only the language entry does, rt * territoryBonus when only the         *)
(* territory entry does; territoryBonus is 1, languageBonus is 100 for     *)
(* locales and console fonts and 1 for keyboards.                          *)
(***************************************************************************)
ClaimedWeight(c) ==
    LET rl == RankOf(LanguageRanks, c)
        rt == RankOf(ConsultedTerritoryRanks, c)
    IN  IF rl # 0 /\ rt # 0 THEN rl * rt * 1000000 * LanguageBonus * 1
        ELSE IF rl # 0 THEN rl * LanguageBonus
        ELSE rt * 1

C3_CombinedWeight ==
    ListDone =>
        \A i \in 1..Len(result) : ReturnedWeight(i) = ClaimedWeight(ReturnedId(i))

C3_Witness ==
    /\ ListDone
    /\ Len(result) = 2
    /\ ReturnedId(1) \in DualConfirmed
    /\ RankOf(LanguageRanks, ReturnedId(1)) = 2
    /\ RankOf(TerritoryRanks, ReturnedId(1)) = 2
    /\ ReturnedId(2) \in SingleSource
    /\ ReturnedWeight(2) = 2 * LanguageBonus

(***************************************************************************)
(* C4: when a language entry and a territory entry are both consulted,     *)
(* every candidate ranked by both has a strictly larger combined weight    *)
(* than, and is returned before, every candidate ranked by one only.       *)
(* As claimed: for all positive ranks.  As amended: for ranks below        *)
(* 1,000,000.                                                              *)
(***************************************************************************)
BothConsulted == locals.languageId \in DOMAIN _languages_db /\ TerritoryConsulted

DualBeforeSingle ==
    /\ \A c \in DualConfirmed, d \in SingleSource : locals.ranked[c] > locals.ranked[d]
    /\ \A i, j \in 1..Len(result) :
        ReturnedId(i) \in DualConfirmed /\ ReturnedId(j) \in SingleSource => i < j

C4_ConsensusDominatesAnyRank == ListDone /\ BothConsulted => DualBeforeSingle

C4_ConsensusDominatesBelowMillion ==
    ListDone /\ BothConsulted /\ RanksBelow(1000000) => DualBeforeSingle

C4_Witness ==
    /\ ListDone
    /\ BothConsulted
    /\ RanksBelow(1000000)
    /\ Len(result) = 2
    /\ ReturnedId(1) \in DualConfirmed
    /\ ReturnedId(2) \in SingleSource
    /\ ReturnedWeight(2) = 999999 * LanguageBonus

(***************************************************************************)
(* C5: a concise list_locales or list_keyboards call with a language and a *)
(* territory, in which some candidate is ranked by both sources, returns   *)
(* no candidate ranked by one source only.  As claimed: for any ranks.  As *)
(* amended: for ranks below 1000.                                          *)
(***************************************************************************)
ConciseWithBoth ==
    /\ pc \in {"list_locales", "list_keyboards"}
    /\ args.concise
    /\ Truthy(args.languageId)
    /\ Truthy(locals.territoryId)
    /\ DualConfirmed # {}

OnlyDualReturned == \A i \in 1..Len(result) : ReturnedId(i) \in DualConfirmed

C5_ConciseCollapsesAnyRank == ConciseWithBoth => OnlyDualReturned

C5_ConciseCollapsesBelowThousand == ConciseWithBoth /\ RanksBelow(1000) => OnlyDualReturned

C5_Witness ==
    /\ ConciseWithBoth
    /\ RanksBelow(1000)
    /\ Cardinality(DualConfirmed) = 1
    /\ \E d \in SingleSource : locals.ranked[d] = 999 * LanguageBonus
    /\ Len(result) = 1

(***************************************************************************)
(* C6: a rank of 0 contributes nothing to a combined weight, and a         *)
(* candidate whose rank is 0 or absent in every consulted source is not    *)
(* returned.                                                               *)
(***************************************************************************)
C6_RankZeroExcluded ==
    ListDone =>
        \A i \in 1..Len(result) :
            LET rl == RankOf(LanguageRanks, ReturnedId(i))
                rt == RankOf(ConsultedTerritoryRanks, ReturnedId(i))
            IN  /\ rl # 0 \/ rt # 0
                /\ rl = 0 => ReturnedWeight(i) = rt
                /\ rt = 0 => ReturnedWeight(i) = rl * LanguageBonus

C6_Witness ==
    /\ ListDone
    /\ \E c, d \in Candidates :
        /\ c \in DOMAIN LanguageRanks /\ LanguageRanks[c] = 0
        /\ c \in DOMAIN ConsultedTerritoryRanks /\ ConsultedTerritoryRanks[c] = 0
        /\ d \in DOMAIN LanguageRanks /\ LanguageRanks[d] = 0
        /\ RankOf(ConsultedTerritoryRanks, d) = 2
        /\ result = <<d>>

(***************************************************************************)
(* C7: the keys lang_script_territory, lang_script, lang_territory are     *)
(* tried in that order and the first one in the Language table replaces    *)
(* the language id; with none of them the plain id stays and skipTerritory *)
(* is false.  As claimed: any of the three sets skipTerritory.  As         *)
(* amended: lang_script_territory and lang_territory set it, lang_script   *)
(* leaves it false.                                                        *)
(***************************************************************************)
Normalized == _parse_and_split_languageId(args.languageId, args.scriptId, args.territoryId)

CompoundKeyTried(parts) ==
    /\ \A i \in 1..Len(parts) : Truthy(parts[i])
    /\ (IF Len(parts) = 3 THEN Join3(parts[1], parts[2], parts[3])
        ELSE Join2(parts[1], parts[2])) \in DOMAIN _languages_db

Resolution(skipWithScriptKey) ==
    LET l == Normalized[1]
        s == Normalized[2]
        t == Normalized[3]
    IN  IF CompoundKeyTried(<<l, s, t>>)
        THEN locals.languageId = Join3(l, s, t) /\ locals.skipTerritory
        ELSE IF CompoundKeyTried(<<l, s>>)
        THEN locals.languageId = Join2(l, s) /\ locals.skipTerritory = skipWithScriptKey
        ELSE IF CompoundKeyTried(<<l, t>>)
        THEN locals.languageId = Join2(l, t) /\ locals.skipTerritory
        ELSE locals.languageId = l /\ ~locals.skipTerritory

C7_AnyCompoundKeySkipsTerritory == ListDone => Resolution(TRUE)

C7_ScriptKeyKeepsTerritory == ListDone => Resolution(FALSE)

C7_Witness ==
    /\ ListDone
    /\ locals.languageId = Join2(sr, Latn)
    /\ locals.territoryId = RS
    /\ Join2(sr, RS) \in DOMAIN _languages_db
    /\ ~locals.skipTerritory

(***************************************************************************)
(* C8: in each of the three list_* functions, when skipTerritory is true   *)
(* the territory entry contributes nothing: what is returned is what the   *)
(* resolved compound language entry alone gives.                           *)
(***************************************************************************)
C8_SkipTerritoryDropsTerritory ==
    ListDone /\ locals.skipTerritory =>
        \A i \in 1..Len(result) :
            ReturnedWeight(i) = RankOf(LanguageRanks, ReturnedId(i)) * LanguageBonus

(***************************************************************************)
(* _make_ranked_list_concise on its own                                    *)
(***************************************************************************)
\* Bound of the ranked lists the function is applied to.
MaxLen == 3

\* Weights on both sides of the cut-off factor: 2001 / 2 lies between 1000
\* and 1001, 1002001 / 1001 and 1001 / 1 both exceed 1000.
ConciseWeights == {1, 2, 500, 1000, 1001, 2001, 1000000, 1002001}

\* The id of the i-th item: "a", "aa", "aaa", ...
ItemId(i) == [j \in 1..i |-> "a"]

\* The sorted ranked lists of at most MaxLen items.
SortedRankedLists ==
    {[i \in 1..Len(w) |-> <<ItemId(i), w[i]>>] :
        w \in {v \in UNION {[1..n -> ConciseWeights] : n \in 0..MaxLen} :
                  \A i \in 1..(Len(v) - 1) : v[i] >= v[i + 1]}}

NoTables ==
    /\ _languages_db = EmptyDict
    /\ _territories_db = EmptyDict
    /\ _keyboards_db = EmptyDict

InitPure == Idle /\ NoTables

MakeRankedListConcise ==
    /\ pc = "idle"
    /\ \E ranked_list \in SortedRankedLists :
        /\ pc' = "_make_ranked_list_concise"
        /\ args' = [function |-> "_make_ranked_list_concise", ranked_list |-> ranked_list]
        /\ locals' = NoCall
        /\ result' = _make_ranked_list_concise(ranked_list)
        /\ UNCHANGED tables

NextConcise == MakeRankedListConcise \/ Return

SpecConcise == InitPure /\ [][NextConcise]_vars

(***************************************************************************)
(* C9: a sorted ranked list of more than one item is cut behind the first  *)
(* index i for which weight[i] / weight[i+1] exceeds 1000 and no later     *)
(* pair counts; with no such pair, or with at most one item, the list      *)
(* comes back whole.  [1000000, 500, 1] gives a single item.               *)
(***************************************************************************)
\* weight[i] / weight[i+1] > 1000 for positive weights, as a ratio.
RatioExceeds(ranked_list, i) == ranked_list[i][2] > 1000 * ranked_list[i + 1][2]

C9_CutAtFirstRatioAbove ==
    pc = "_make_ranked_list_concise" =>
        LET l == args.ranked_list
            over == {i \in 1..(Len(l) - 1) : RatioExceeds(l, i)}
        IN  /\ Len(l) <= 1 \/ over = {} => result = l
            /\ Len(l) > 1 /\ over # {} =>
                result = SubSeq(l, 1, CHOOSE i \in over : \A j \in over : i <= j)

(***************************************************************************)
(* _parse_and_split_languageId on its own                                  *)
(***************************************************************************)
Cyrl == <<"C", "y", "r", "l">>

latin == <<"l", "a", "t", "i", "n">>

ME == <<"M", "E">>

srp == <<"s", "r", "p">>

\* The languageId arguments: tags of the grammar, with and without an
\* options part and a legacy script name, and strings outside the grammar.
iqtelif == <<"i", "q", "t", "e", "l", "i", "f">>

cyrillic == <<"c", "y", "r", "i", "l", "l", "i", "c">>

devanagari == <<"d", "e", "v", "a", "n", "a", "g", "a", "r", "i">>

Deva == <<"D", "e", "v", "a">>

ParseLanguageIds ==
    { None, <<>>, sr, srp,
      Join2(sr, RS), Join2(sr, Latn), Join3(sr, Latn, RS), Join3(sr, latin, RS),
      Join2(srp, Cyrl), Join2(sr, RS) \o <<"@", "e">>,
      <<"s", "r", "_", "r", "s">>, <<"S", "R">>, Join3(sr, RS, Latn),
      Join2(sr, RS) \o <<".", "8">>,
      Join2(sr, latin), Join2(sr, iqtelif), Join2(sr, cyrillic), Join2(sr, devanagari),
      Join2(<<"S", "R">>, latin) }

ParseScriptIds == {None, Latn, latin, Cyrl, iqtelif, cyrillic, devanagari}

ParseTerritoryIds == {None, RS, ME}

ParseAndSplit ==
    /\ pc = "idle"
    /\ \E languageId \in ParseLanguageIds, scriptId \in ParseScriptIds,
          territoryId \in ParseTerritoryIds :
        /\ pc' = "_parse_and_split_languageId"
        /\ args' = [function |-> "_parse_and_split_languageId", languageId |-> languageId,
                    scriptId |-> scriptId, territoryId |-> territoryId]
        /\ locals' = NoCall
        /\ result' = _parse_and_split_languageId(languageId, scriptId, territoryId)
        /\ UNCHANGED tables

\* The caller hands the triple it got back to the function once more.
ParseAndSplitAgain ==
    /\ pc = "_parse_and_split_languageId"
    /\ locals = NoCall
    /\ pc' = "_parse_and_split_languageId"
    /\ args' = [function |-> "_parse_and_split_languageId", languageId |-> result[1],
                scriptId |-> result[2], territoryId |-> result[3]]
    /\ locals' = [function |-> "caller", first |-> result]
    /\ result' = _parse_and_split_languageId(result[1], result[2], result[3])
    /\ UNCHANGED tables

NextParse == ParseAndSplit \/ ParseAndSplitAgain \/ Return

SpecParse == InitPure /\ [][NextParse]_vars

\* What the grammar makes of each tag of ParseLanguageIds that it accepts.
GrammarTags ==
    { [tag |-> sr, language |-> sr, script |-> None, territory |-> None],
      [tag |-> srp, language |-> srp, script |-> None, territory |-> None],
      [tag |-> Join2(sr, RS), language |-> sr, script |-> None, territory |-> RS],
      [tag |-> Join2(sr, Latn), language |-> sr, script |-> Latn, territory |-> None],
      [tag |-> Join3(sr, Latn, RS), language |-> sr, script |-> Latn, territory |-> RS],
      [tag |-> Join3(sr, latin, RS), language |-> sr, script |-> Latn, territory |-> RS],
      [tag |-> Join2(srp, Cyrl), language |-> srp, script |-> Cyrl, territory |-> None],
      [tag |-> Join2(sr, RS) \o <<"@", "e">>, language |-> sr, script |-> None,
       territory |-> RS] }

\* The legacy script names and the ISO 15924 codes that stand for them.
LegacyScripts ==
    { [alias |-> latin, code |-> Latn], [alias |-> iqtelif, code |-> Latn],
      [alias |-> cyrillic, code |-> Cyrl], [alias |-> devanagari, code |-> Deva] }

\* The script hint with its legacy name replaced.
ScriptHint ==
    IF \E a \in LegacyScripts : a.alias = args.scriptId
    THEN (CHOOSE a \in LegacyScripts : a.alias = args.scriptId).code
    ELSE args.scriptId

(***************************************************************************)
(* C10: when the combined identifier matches the grammar, the parsed       *)
(* language, script and territory are returned in place of the hints.  As  *)
(* claimed: all three parsed values are returned.  As amended: the parsed  *)
(* language is returned, and a script or territory that the tag holds      *)
(* replaces its hint, while a hint whose part the tag lacks is returned    *)
(* (the script hint with its legacy name replaced).                        *)
(***************************************************************************)
C10_ParsedTripleReturned ==
    pc = "_parse_and_split_languageId" =>
        \A g \in GrammarTags :
            args.languageId = g.tag => result = <<g.language, g.script, g.territory>>

C10_ParsedPartsReplaceHints ==
    pc = "_parse_and_split_languageId" =>
        \A g \in GrammarTags :
            args.languageId = g.tag =>
                result = <<g.language,
                           IF g.script # None THEN g.script ELSE ScriptHint,
                           IF g.territory # None THEN g.territory ELSE args.territoryId>>

C10_Witness ==
    /\ pc = "_parse_and_split_languageId"
    /\ args.languageId = Join2(sr, Latn)
    /\ args.scriptId = Cyrl
    /\ args.territoryId = ME
    /\ result = <<sr, Latn, ME>>

(***************************************************************************)
(* C11: when the combined identifier does not match the grammar, the call  *)
(* returns normally with the identifier in the language slot and the two   *)
(* hints behind it.  As claimed: the identifier and the hints come back as *)
(* they were supplied.  As amended: the identifier and the script hint     *)
(* come back with their legacy script names replaced, the territory hint   *)
(* as supplied.                                                            *)
(***************************************************************************)
\* The identifiers of ParseLanguageIds that the grammar rejects or that are
\* never matched against it, and what the alias loop makes of each.
UnmatchedIds ==
    { [id |-> None, replaced |-> None],
      [id |-> <<>>, replaced |-> <<>>],
      [id |-> <<"s", "r", "_", "r", "s">>, replaced |-> <<"s", "r", "_", "r", "s">>],
      [id |-> <<"S", "R">>, replaced |-> <<"S", "R">>],
      [id |-> Join3(sr, RS, Latn), replaced |-> Join3(sr, RS, Latn)],
      [id |-> Join2(sr, RS) \o <<".", "8">>, replaced |-> Join2(sr, RS) \o <<".", "8">>],
      [id |-> Join2(<<"S", "R">>, latin), replaced |-> Join2(<<"S", "R">>, Latn)],
      [id |-> Join2(<<"S", "R">>, Latn), replaced |-> Join2(<<"S", "R">>, Latn)] }

C11_UnmatchedReturnedAsSupplied ==
    pc = "_parse_and_split_languageId" =>
        \A u \in UnmatchedIds :
            args.languageId = u.id => result = <<u.id, args.scriptId, args.territoryId>>

C11_UnmatchedReturnedAliasReplaced ==
    pc = "_parse_and_split_languageId" =>
        \A u \in UnmatchedIds :
            args.languageId = u.id => result = <<u.replaced, ScriptHint, args.territoryId>>

C11_Witness ==
    /\ pc = "_parse_and_split_languageId"
    /\ args.languageId = Join2(<<"S", "R">>, latin)
    /\ args.scriptId = cyrillic
    /\ args.territoryId = ME
    /\ result = <<Join2(<<"S", "R">>, Latn), Cyrl, ME>>

(***************************************************************************)
(* C12: normalisation is idempotent: handing the returned triple to        *)
(* _parse_and_split_languageId once more returns that same triple, for     *)
(* identifiers with legacy script names and for identifiers outside the    *)
(* grammar as well.                                                        *)
(***************************************************************************)
SecondPass == pc = "_parse_and_split_languageId" /\ locals # NoCall

C13_LegacyAliasesSubstituted ==
    pc = "_parse_and_split_languageId" =>
        /\ args.languageId \in {Join3(sr, latin, RS), Join3(sr, Latn, RS)} =>
                result = <<sr, Latn, RS>>
        /\ \A a \in LegacyScripts :
            /\ args.languageId \in {Join2(sr, a.alias), Join2(sr, a.code)} =>
                    result = <<sr, a.code, args.territoryId>>
            /\ args.scriptId = a.alias /\ args.languageId \in {None, sr, Join2(sr, RS)} =>
                    result[2] = a.code

C13_Witness ==
    /\ pc = "_parse_and_split_languageId"
    /\ args.languageId = Join2(sr, iqtelif)
    /\ args.scriptId = devanagari
    /\ result = <<sr, Latn, None>>

(***************************************************************************)
(* The name queries and supports_ascii                                     *)
(***************************************************************************)
\* The outcome of one "if ... in names: return names[...]" block sequence:
\* whether a return was reached, and the value returned.
Miss == [found |-> FALSE, value |-> <<>>]

Hit(value) == [found |-> TRUE, value |-> value]

\* The four keys icuLocaleIdQuery takes, in the order of the four blocks,
\* with lang_territory ahead of lang_script.
QueryKeysTerritoryFirst(languageIdQuery, scriptIdQuery, territoryIdQuery) ==
    (IF Truthy(languageIdQuery) /\ Truthy(scriptIdQuery) /\ Truthy(territoryIdQuery)
     THEN <<Join3(languageIdQuery, scriptIdQuery, territoryIdQuery)>> ELSE <<>>)
    \o (IF Truthy(languageIdQuery) /\ Truthy(territoryIdQuery)
        THEN <<Join2(languageIdQuery, territoryIdQuery)>> ELSE <<>>)
    \o (IF Truthy(languageIdQuery) /\ Truthy(scriptIdQuery)
        THEN <<Join2(languageIdQuery, scriptIdQuery)>> ELSE <<>>)
    \o (IF Truthy(languageIdQuery) THEN <<languageIdQuery>> ELSE <<>>)

\* The keys icuLocaleIdQuery takes in the four blocks that look a name up,
\* in the order of the blocks; a block whose "if" fails contributes none.
QueryKeys(languageIdQuery, scriptIdQuery, territoryIdQuery) ==
    (IF Truthy(languageIdQuery) /\ Truthy(scriptIdQuery) /\ Truthy(territoryIdQuery)
     THEN <<Join3(languageIdQuery, scriptIdQuery, territoryIdQuery)>> ELSE <<>>)
    \o (IF Truthy(languageIdQuery) /\ Truthy(scriptIdQuery)
        THEN <<Join2(languageIdQuery, scriptIdQuery)>> ELSE <<>>)
    \o (IF Truthy(languageIdQuery) /\ Truthy(territoryIdQuery)
        THEN <<Join2(languageIdQuery, territoryIdQuery)>> ELSE <<>>)
    \o (IF Truthy(languageIdQuery) THEN <<languageIdQuery>> ELSE <<>>)

\* The four blocks run on one names mapping: the first key found returns.
NamesLookup(names, keys) ==
    LET found == {i \in 1..Len(keys) : keys[i] \in DOMAIN names}
    IN  IF found = {} THEN Miss
        ELSE Hit(names[keys[CHOOSE i \in found : \A j \in found : i <= j]])

\* "if icuLocaleId in db:" and the four blocks under it.
EntryLookup(db, icuLocaleId, q) ==
    IF icuLocaleId \in DOMAIN db
    THEN NamesLookup(db[icuLocaleId].names, QueryKeys(q[1], q[2], q[3]))
    ELSE Miss

KeyError == <<"KeyError">>

\* territory_name without "if territoryId in _territories_db:".
TerritoryNameUnguarded(territoryId, q) ==
    IF territoryId \in DOMAIN _territories_db
    THEN LET hit == EntryLookup(_territories_db, territoryId, q)
         IN  IF hit.found THEN hit.value ELSE <<>>
    ELSE KeyError

\* territory_name behind _parse_and_split_languageId, which returned q.
TerritoryNameOf(territoryId, q) ==
    LET hit == EntryLookup(_territories_db, territoryId, q)
    IN  IF hit.found THEN hit.value ELSE <<>>

territory_name(territoryId, languageIdQuery, scriptIdQuery, territoryIdQuery) ==
    TerritoryNameOf(territoryId,
        _parse_and_split_languageId(languageIdQuery, scriptIdQuery, territoryIdQuery))

\* The query without "if not languageIdQuery:".
NoEndonymDefault(p, q) == q

\* "if not languageIdQuery:": the query triple becomes the subject triple.
EndonymDefault(p, q) == IF ~Truthy(q[1]) THEN p ELSE q

\* "return lname + ' ('+cname+')'"
Label(lname, cname) == lname \o <<" ", "(">> \o cname \o <<")">>

\* The label built although lname or cname is empty.
SynthesizeAlways(lname, cname) == Hit(Label(lname, cname))

\* "if lname and cname: return ..."
Synthesize(lname, cname) ==
    IF Truthy(lname) /\ Truthy(cname) THEN Hit(Label(lname, cname)) ELSE Miss

\* The first of the outcomes, taken in order, that reached a return; the
\* step is its place in the order, 0 for the final "return ''".
FirstReturn(outcomes) ==
    LET found == {i \in 1..Len(outcomes) : outcomes[i].found}
    IN  IF found = {} THEN [step |-> 0, value |-> <<>>]
        ELSE LET i == CHOOSE i \in found : \A j \in found : i <= j
             IN  [step |-> i, value |-> outcomes[i].value]

\* language_name stopping at the first subject key the table holds.
SubjectStepsStopAtFirstKey(p, q, label) ==
    LET keys == QueryKeys(p[1], p[2], p[3])
        present == {i \in 1..Len(keys) : keys[i] \in DOMAIN _languages_db}
    IN  IF present = {} THEN [step |-> 0, value |-> <<>>]
        ELSE LET hit == EntryLookup(_languages_db,
                            keys[CHOOSE i \in present : \A j \in present : i <= j], q)
             IN  IF hit.found THEN [step |-> 1, value |-> hit.value]
                 ELSE [step |-> 0, value |-> <<>>]

\* The blocks of language_name under the normalised subject p and the query
\* q, where label is the outcome of "if lname and cname".  Steps 1 to 3 are
\* the three compound subject keys, 4 the label, 5 the bare language.
SubjectSteps(p, q, label) ==
    FirstReturn(<<
        IF Truthy(p[1]) /\ Truthy(p[2]) /\ Truthy(p[3])
        THEN EntryLookup(_languages_db, Join3(p[1], p[2], p[3]), q) ELSE Miss,
        IF Truthy(p[1]) /\ Truthy(p[2])
        THEN EntryLookup(_languages_db, Join2(p[1], p[2]), q) ELSE Miss,
        IF Truthy(p[1]) /\ Truthy(p[3])
        THEN EntryLookup(_languages_db, Join2(p[1], p[3]), q) ELSE Miss,
        IF Truthy(p[1]) /\ Truthy(p[3]) THEN label ELSE Miss,
        IF Truthy(p[1]) THEN EntryLookup(_languages_db, p[1], q) ELSE Miss >>)

RECURSIVE language_name(_, _, _, _, _, _)

\* The recursive call and the call of territory_name are made only when
\* the block of languageId+'_'+territoryId is entered and did not return.
LabelOf(p, q) ==
    IF Truthy(p[1]) /\ Truthy(p[3])
    THEN Synthesize(language_name(p[1], None, None, q[1], q[2], q[3]).value,
                    territory_name(p[3], q[1], q[2], q[3]))
    ELSE Miss

\* language_name behind its two calls of _parse_and_split_languageId and
\* the endonym default: the value returned, the step that returned it and
\* the two triples.
LanguageNameOf(p, q) ==
    [subject |-> p, query |-> q] @@ SubjectSteps(p, q, LabelOf(p, q))

LanguageNameNormalized(p, q) == LanguageNameOf(p, EndonymDefault(p, q))

language_name(languageId, scriptId, territoryId, languageIdQuery, scriptIdQuery, territoryIdQuery) ==
    LanguageNameNormalized(
        _parse_and_split_languageId(languageId, scriptId, territoryId),
        _parse_and_split_languageId(languageIdQuery, scriptIdQuery, territoryIdQuery))

\* supports_ascii answering with the default of keyboard_db_item, ascii=True,
\* for a keyboard the table lacks.
SupportsAsciiDefaultTrue(keyboardId) ==
    IF keyboardId \in DOMAIN _keyboards_db THEN _keyboards_db[keyboardId].ascii ELSE TRUE

supports_ascii(keyboardId) ==
    IF keyboardId \in DOMAIN _keyboards_db THEN _keyboards_db[keyboardId].ascii ELSE FALSE

keyboard_db_item(ascii) ==
    [description |-> None, ascii |-> ascii, comment |-> None, languages |-> EmptyDict,
     territories |-> EmptyDict]

(***************************************************************************)
(* The six public queries over tables that hold names                      *)
(***************************************************************************)
en == <<"e", "n">>

jp == <<"j", "p">>

ru == <<"r", "u">>

XX == <<"X", "X">>

\* The name an entry stores under a key: one string per entry and key, so
\* that a result tells which entry and which key it came from.
NameOf(entry, key) == entry \o <<":">> \o key

NameKeys == LanguageKeys \cup {en}

\* The names mappings an entry is loaded with: a name under every key, a
\* name under en only, and an empty name under sr only.
NamesOptions(entry) ==
    { [k \in NameKeys |-> NameOf(entry, k)],
      [k \in {en} |-> NameOf(entry, k)],
      [k \in {sr} |-> <<>>] }

\* The rank mapping of every entry of these tables.
NamedRanks == [c \in Candidates |-> IF c = <<"a">> THEN 2 ELSE 1]

LanguageTables ==
    UNION { {[k \in keys |-> language_db_item(names[k], NamedRanks)] :
                names \in {n \in [keys -> UNION {NamesOptions(k) : k \in keys}] :
                              \A k \in keys : n[k] \in NamesOptions(k)}} :
            keys \in SUBSET LanguageKeys }

\* The territory is also loaded with a name under every key but the most
\* specific one.
TerritoryTables ==
    {EmptyDict} \cup
    {[k \in {RS} |-> territory_db_item(names, NamedRanks)] :
        names \in NamesOptions(RS) \cup
                  {[k \in NameKeys \ {Join3(sr, Latn, RS)} |-> NameOf(RS, k)]}}

KeyboardTables ==
    UNION { {[k \in keys |-> keyboard_db_item(ascii[k])] : ascii \in [keys -> BOOLEAN]} :
            keys \in SUBSET {jp, ru} }

\* The tables after loading: every language and territory table with the
\* two keyboards, and every keyboard table with the other tables empty.
InitQueries ==
    /\ Idle
    /\ \/ /\ _languages_db \in LanguageTables
          /\ _territories_db \in TerritoryTables
          /\ _keyboards_db = [k \in {jp, ru} |-> keyboard_db_item(k = jp)]
       \/ /\ _languages_db = EmptyDict
          /\ _territories_db = EmptyDict
          /\ _keyboards_db \in KeyboardTables

\* The (languageIdQuery, scriptIdQuery, territoryIdQuery) arguments.
NameQueryArguments ==
    { <<None, None, None>>,
      <<en, None, None>>,
      <<sr, None, None>>,
      <<sr, Latn, RS>>,
      <<None, Latn, RS>>,
      <<Join2(sr, RS), None, None>> }

TerritoryName ==
    /\ pc = "idle"
    /\ \E territoryId \in {None, RS, XX}, q \in NameQueryArguments :
        /\ pc' = "territory_name"
        /\ args' = [function |-> "territory_name", territoryId |-> territoryId,
                    languageIdQuery |-> q[1], scriptIdQuery |-> q[2],
                    territoryIdQuery |-> q[3]]
        /\ locals' = [function |-> "territory_name",
                      query |-> _parse_and_split_languageId(q[1], q[2], q[3])]
        /\ result' = territory_name(territoryId, q[1], q[2], q[3])
        /\ UNCHANGED tables

\* The return of language_name, whose blocks gave the outcome r.
LanguageNameReturn(a, q, r) ==
    /\ pc' = "language_name"
    /\ args' = [function |-> "language_name", languageId |-> a[1], scriptId |-> a[2],
                territoryId |-> a[3], languageIdQuery |-> q[1], scriptIdQuery |-> q[2],
                territoryIdQuery |-> q[3]]
    /\ locals' = [function |-> "language_name", subject |-> r.subject, query |-> r.query,
                  step |-> r.step]
    /\ result' = r.value
    /\ UNCHANGED tables

LanguageName ==
    /\ pc = "idle"
    /\ \E a \in QueryArguments, q \in NameQueryArguments :
        LanguageNameReturn(a, q, language_name(a[1], a[2], a[3], q[1], q[2], q[3]))

SupportsAscii ==
    /\ pc = "idle"
    /\ \E keyboardId \in {None, jp, ru, XX} :
        /\ pc' = "supports_ascii"
        /\ args' = [function |-> "supports_ascii", keyboardId |-> keyboardId]
        /\ locals' = NoCall
        /\ result' = supports_ascii(keyboardId)
        /\ UNCHANGED tables

NextQueries ==
    \/ TerritoryName
    \/ LanguageName
    \/ SupportsAscii
    \/ ListLocales
    \/ ListKeyboards
    \/ ListConsolefonts
    \/ Return

SpecQueries == InitQueries /\ [][NextQueries]_vars

(***************************************************************************)
(* What a finished name query is compared with                             *)
(***************************************************************************)
TerritoryDone == pc = "territory_name"

LanguageDone == pc = "language_name"

\* The name a names mapping holds for the normalised query q: the value
\* under the first of lang_script_territory, lang_script, lang_territory
\* and lang that can be formed and is a key of the mapping.
Cascade(names, q) ==
    LET l == Truthy(q[1])
        sc == Truthy(q[2])
        t == Truthy(q[3])
    IN  IF l /\ sc /\ t /\ Join3(q[1], q[2], q[3]) \in DOMAIN names
        THEN Hit(names[Join3(q[1], q[2], q[3])])
        ELSE IF l /\ sc /\ Join2(q[1], q[2]) \in DOMAIN names
        THEN Hit(names[Join2(q[1], q[2])])
        ELSE IF l /\ t /\ Join2(q[1], q[3]) \in DOMAIN names
        THEN Hit(names[Join2(q[1], q[3])])
        ELSE IF l /\ q[1] \in DOMAIN names
        THEN Hit(names[q[1]])
        ELSE Miss

\* The name the Language table holds for the query under a subject key.
SubjectName(key) ==
    IF key \in DOMAIN _languages_db
    THEN Cascade(_languages_db[key].names, locals.query)
    ELSE Miss

\* The subject keys of the finished language_name call that can be formed,
\* most specific first; the bare language is the last.
SubjectKeys ==
    LET p == locals.subject
    IN  (IF Truthy(p[1]) /\ Truthy(p[2]) /\ Truthy(p[3])
         THEN <<Join3(p[1], p[2], p[3])>> ELSE <<>>)
        \o (IF Truthy(p[1]) /\ Truthy(p[2]) THEN <<Join2(p[1], p[2])>> ELSE <<>>)
        \o (IF Truthy(p[1]) /\ Truthy(p[3]) THEN <<Join2(p[1], p[3])>> ELSE <<>>)
        \o (IF Truthy(p[1]) THEN <<p[1]>> ELSE <<>>)

\* The compound subject keys among them.
CompoundKeys == SubSeq(SubjectKeys, 1, Len(SubjectKeys) - 1)

\* Language and territory were both supplied.
TerritorySupplied == Truthy(locals.subject[1]) /\ Truthy(locals.subject[3])

\* No stored name holds a parenthesis: only a synthesized result does.
IsLabel(name) == \E i \in 1..Len(name) : name[i] = "("

NoCompoundName == \A i \in 1..Len(CompoundKeys) : ~SubjectName(CompoundKeys[i]).found

(***************************************************************************)
(* C14: for a known territoryId, territory_name returns the value the      *)
(* territory's names mapping holds under the first of the keys             *)
(* lang_script_territory, lang_script, lang_territory, lang of the         *)
(* normalised query that can be formed and is present, in that order, and  *)
(* the empty string when none is present.                                  *)
(***************************************************************************)
C14_TerritoryNameCascade ==
    TerritoryDone /\ args.territoryId \in DOMAIN _territories_db =>
        LET name == Cascade(_territories_db[args.territoryId].names, locals.query)
        IN  result = IF name.found THEN name.value ELSE <<>>

C14_Witness ==
    /\ TerritoryDone
    /\ args.territoryId = RS
    /\ args.languageIdQuery = sr /\ args.scriptIdQuery = Latn /\ args.territoryIdQuery = RS
    /\ RS \in DOMAIN _territories_db
    /\ Join3(sr, Latn, RS) \notin DOMAIN _territories_db[RS].names
    /\ result = NameOf(RS, Join2(sr, Latn))

(***************************************************************************)
(* C15: language_name tries the subject keys language_script_territory,    *)
(* language_script, language_territory, language in that order.  As        *)
(* claimed: the search stops at the first key the Language table holds,    *)
(* and the result, unless it is the disambiguating label, is the first hit *)
(* of the query cascade in that entry alone.  As amended: an entry that holds no name for the query is passed *)
(* over, and the result is the first hit of the query cascade in the most  *)
(* specific entry that has one; the bare language, tried last, is the      *)
(* result when no compound entry has a name and no label is returned.      *)
(***************************************************************************)
C15_StopsAtFirstPresentKey ==
    LanguageDone /\ ~IsLabel(result) =>
        LET present == {i \in 1..Len(SubjectKeys) : SubjectKeys[i] \in DOMAIN _languages_db}
        IN  IF present = {} THEN result = <<>>
            ELSE LET name == SubjectName(SubjectKeys[CHOOSE i \in present :
                                                        \A j \in present : i <= j])
                 IN  result = IF name.found THEN name.value ELSE <<>>

C15_FirstEntryWithName ==
    LanguageDone =>
        LET named == {i \in 1..Len(SubjectKeys) : SubjectName(SubjectKeys[i]).found}
            compound == named \cap (1..Len(CompoundKeys))
        IN  /\ compound # {} =>
                result = SubjectName(SubjectKeys[CHOOSE i \in compound :
                                                    \A j \in compound : i <= j]).value
            /\ compound = {} /\ (~TerritorySupplied \/ ~IsLabel(result)) =>
                result = IF named # {} THEN SubjectName(locals.subject[1]).value ELSE <<>>

C15_Witness ==
    /\ LanguageDone
    /\ locals.subject = <<sr, Latn, RS>>
    /\ locals.query = <<en, None, None>>
    /\ Join3(sr, Latn, RS) \in DOMAIN _languages_db
    /\ ~SubjectName(Join3(sr, Latn, RS)).found
    /\ result = NameOf(Join2(sr, Latn), en)

(***************************************************************************)
(* C16: with no query triple given, language_name answers as it does when  *)
(* the query triple is the normalised subject triple.                      *)
(***************************************************************************)
NoQueryGiven ==
    /\ LanguageDone
    /\ args.languageIdQuery = None
    /\ args.scriptIdQuery = None
    /\ args.territoryIdQuery = None

C16_EndonymDefault ==
    NoQueryGiven =>
        LET p == _parse_and_split_languageId(args.languageId, args.scriptId, args.territoryId)
        IN  result = language_name(args.languageId, args.scriptId, args.territoryId,
                                   p[1], p[2], p[3]).value

C16_Witness ==
    /\ NoQueryGiven
    /\ args.languageId = sr /\ args.scriptId = Latn /\ args.territoryId = None
    /\ result = NameOf(Join2(sr, Latn), Join2(sr, Latn))

(***************************************************************************)
(* C17: the disambiguating label "<language name> (<territory name>)",     *)
(* built from language_name(language, query) and territory_name(territory, *)
(* query).  As claimed: it is the result when the language_territory key   *)
(* is absent from the Language table, the bare language is present, a      *)
(* territory was supplied and both names are non-empty, and it is built    *)
(* only when that key is absent and never when a name is empty.  As        *)
(* amended: it is the result exactly when language and territory were      *)
(* supplied, no compound subject key gives a name for the query (each is   *)
(* absent or holds no name for it) and both names are non-empty.           *)
(***************************************************************************)
LanguagePart ==
    language_name(locals.subject[1], None, None,
                  locals.query[1], locals.query[2], locals.query[3]).value

TerritoryPart ==
    territory_name(locals.subject[3], locals.query[1], locals.query[2], locals.query[3])

C17_LabelWhenCompoundKeyAbsent ==
    LanguageDone =>
        LET absent == Join2(locals.subject[1], locals.subject[3]) \notin DOMAIN _languages_db
        IN  /\ /\ TerritorySupplied
               /\ absent
               /\ locals.subject[1] \in DOMAIN _languages_db
               /\ Truthy(LanguagePart)
               /\ Truthy(TerritoryPart)
               => result = Label(LanguagePart, TerritoryPart)
            /\ IsLabel(result) =>
                absent /\ Truthy(LanguagePart) /\ Truthy(TerritoryPart)

C17_LabelWhenNoCompoundName ==
    LanguageDone =>
        LET due == /\ TerritorySupplied
                   /\ NoCompoundName
                   /\ Truthy(LanguagePart)
                   /\ Truthy(TerritoryPart)
        IN  /\ due => result = Label(LanguagePart, TerritoryPart)
            /\ IsLabel(result) => due

C17_Witness ==
    /\ LanguageDone
    /\ locals.subject = <<sr, None, RS>>
    /\ locals.query = <<en, None, None>>
    /\ Join2(sr, RS) \in DOMAIN _languages_db
    /\ result = Label(NameOf(sr, en), NameOf(RS, en))

(***************************************************************************)
(* C18: supports_ascii returns the stored ascii flag of a keyboard the     *)
(* Keyboard table holds and False for every other keyboardId, None         *)
(* included.                                                               *)
(***************************************************************************)
C18_SupportsAscii ==
    pc = "supports_ascii" =>
        /\ result \in BOOLEAN
        /\ args.keyboardId \in DOMAIN _keyboards_db =>
                result = _keyboards_db[args.keyboardId].ascii
        /\ args.keyboardId \notin DOMAIN _keyboards_db => result = FALSE

C18_Witness ==
    /\ pc = "supports_ascii"
    /\ args.keyboardId = ru
    /\ jp \in DOMAIN _keyboards_db
    /\ ru \notin DOMAIN _keyboards_db
    /\ result = FALSE

C20_AbsenceDegrades ==
    /\ TerritoryDone \/ LanguageDone => result # KeyError
    /\ TerritoryDone /\ args.territoryId \notin DOMAIN _territories_db => result = <<>>
    /\ LanguageDone /\ (\A i \in 1..Len(SubjectKeys) :
                            SubjectKeys[i] \notin DOMAIN _languages_db) => result = <<>>
    /\ ListDone /\ locals.languageId \notin DOMAIN _languages_db
                /\ locals.territoryId \notin DOMAIN _territories_db => result = <<>>
    /\ pc = "supports_ascii" /\ args.keyboardId \notin DOMAIN _keyboards_db => result = FALSE

C20_Witness ==
    /\ TerritoryDone
    /\ args.territoryId = XX
    /\ args.languageIdQuery = sr
    /\ RS \in DOMAIN _territories_db
    /\ result = <<>>

(***************************************************************************)
(* C22: with ranks that are non-negative integers, every weight the list_* *)
(* functions put into the ranked list is a strictly positive integer, so   *)
(* the division of _make_ranked_list_concise has no zero divisor and       *)
(* raises no ZeroDivisionError.                                            *)
(***************************************************************************)
C22_WeightsPositive ==
    ListDone =>
        /\ \A c \in DOMAIN locals.ranked : locals.ranked[c] \in Nat \ {0}
        /\ \A i \in 1..Len(locals.ranked_list) : locals.ranked_list[i][2] > 0
        /\ ZeroDivisors(locals.ranked_list) = {}
        /\ result # ZeroDivisionError

C22_Witness ==
    /\ pc = "list_keyboards"
    /\ args.concise
    /\ args.languageId = sr /\ args.territoryId = RS
    /\ sr \in DOMAIN _languages_db
    /\ RS \in DOMAIN _territories_db
    /\ DOMAIN _languages_db[sr].keyboards = Candidates
    /\ _languages_db[sr].keyboards[<<"a">>] = 0
    /\ _territories_db[RS].keyboards = _languages_db[sr].keyboards
    /\ result = << <<"b">> >>

(***************************************************************************)
(* C24: the concise result of a list_* function is a prefix of the result  *)
(* without concise (the same items in the same order with the same         *)
(* weights), it is non-empty when that one is and starts with the same     *)
(* item; the result without weights is the ids of the result with weights  *)
(* in the same order.                                                      *)
(***************************************************************************)
IsPrefix(a, b) == Len(a) <= Len(b) /\ a = SubSeq(b, 1, Len(a))

C24_ConciseIsPrefix ==
    ListDone =>
        /\ args.concise =>
            \E order \in IterationOrders(locals.ranked) :
                LET whole == _dictionary_to_ranked_list(locals.ranked, order)
                IN  /\ IsPrefix(locals.ranked_list, whole)
                    /\ whole # <<>> => /\ locals.ranked_list # <<>>
                                       /\ locals.ranked_list[1] = whole[1]
        /\ ~args.concise =>
            \E order \in IterationOrders(locals.ranked) :
                locals.ranked_list = _dictionary_to_ranked_list(locals.ranked, order)
        /\ args.show_weights => result = locals.ranked_list
        /\ ~args.show_weights =>
            /\ Len(result) = Len(locals.ranked_list)
            /\ \A i \in 1..Len(result) : result[i] = locals.ranked_list[i][1]

C24_Witness ==
    /\ ListDone
    /\ args.concise
    /\ ~args.show_weights
    /\ Cardinality(DOMAIN locals.ranked) = 2
    /\ Len(locals.ranked_list) = 1
    /\ result = << <<"b">> >>

(***************************************************************************)
(* The catalog files: what the writers write and what expat hands to the   *)
(* SAX handlers.  A file is the sequence of expat's events: the start and  *)
(* the end of an element and the character data between them.  The XML     *)
(* declaration raises no event.  The names and ids of the model are ASCII  *)
(* without markup characters, for which encode('UTF-8') and expat's        *)
(* decoding leave the text as it is.                                       *)
(***************************************************************************)
Start(name) == [event |-> "startElement", name |-> name, content |-> <<>>]

End(name) == [event |-> "endElement", name |-> name, content |-> <<>>]

Chars(content) == [event |-> "characters", name |-> "", content |-> content]

\* Character data: expat reports none for an empty text.
Text(content) == IF content = <<>> THEN <<>> ELSE <<Chars(content)>>

\* The line break and the indentation the writers put between elements.
Blank == <<Chars(<<"\n", " ">>)>>

Element(name, content) == <<Start(name)>> \o content \o <<End(name)>>

RECURSIVE ConcatAll(_)
ConcatAll(parts) == IF parts = <<>> THEN <<>> ELSE Head(parts) \o ConcatAll(Tail(parts))

\* str() of None or of a string.
str(x) == IF x = None THEN <<"N", "o", "n", "e">> ELSE x

str_bool(b) == IF b THEN <<"T", "r", "u", "e">> ELSE <<"F", "a", "l", "s", "e">>

Digits == <<"0", "1", "2", "3", "4", "5", "6", "7", "8", "9">>

\* str() of a non-negative int.
RECURSIVE str_int(_)
str_int(n) ==
    IF n < 10 THEN <<Digits[n + 1]>> ELSE str_int(n \div 10) \o <<Digits[(n % 10) + 1]>>

\* int() of a text of decimal digits, the only text the writers put into a
\* rank element.
RECURSIVE int(_)
int(text) ==
    LET value == (CHOOSE d \in 1..Len(Digits) : Digits[d] = text[Len(text)]) - 1
    IN  IF Len(text) = 1 THEN value
        ELSE 10 * int(SubSeq(text, 1, Len(text) - 1)) + value

\* sorted(dict): the keys in ascending order.
SortedKeys(dict) ==
    CHOOSE order \in IterationOrders(dict) :
        \A i, j \in 1..Len(order) : i < j => StrLess(order[i], order[j])

\* sorted(dict.items(), key=lambda x: (-1*x[1],x[0])): the keys by descending
\* rank, keys of one rank in ascending order.
SortedItems(dict) ==
    CHOOSE order \in IterationOrders(dict) :
        \A i, j \in 1..Len(order) :
            i < j => \/ dict[order[i]] > dict[order[j]]
                     \/ /\ dict[order[i]] = dict[order[j]]
                        /\ StrLess(order[i], order[j])

\* The <names> element as both _write_territories_file and
\* _write_languages_file write it.
WriteNames(names) ==
    Element("names",
        Blank \o ConcatAll([i \in 1..Len(SortedKeys(names)) |->
            Element("name",
                Element("languageId", Text(SortedKeys(names)[i]))
                \o Element("name", Text(names[SortedKeys(names)[i]])))
            \o Blank]))
    \o Blank

\* An element of ranked ids, such as <locales> with its <locale> items.
WriteRanks(container, item, idTag, dict) ==
    Element(container,
        Blank \o ConcatAll([i \in 1..Len(SortedItems(dict)) |->
            Element(item,
                Element(idTag, Text(SortedItems(dict)[i]))
                \o Element("rank", Text(str_int(dict[SortedItems(dict)[i]]))))
            \o Blank]))
    \o Blank

WriteTerritory(territoryId) ==
    Element("territory",
        Blank
        \o Element("territoryId", Text(territoryId)) \o Blank
        \o WriteNames(_territories_db[territoryId].names)
        \o WriteRanks("locales", "locale", "localeId", _territories_db[territoryId].locales)
        \o WriteRanks("languages", "language", "languageId",
                      _territories_db[territoryId].languages)
        \o WriteRanks("keyboards", "keyboard", "keyboardId",
                      _territories_db[territoryId].keyboards)
        \o WriteRanks("consolefonts", "consolefont", "consolefontId",
                      _territories_db[territoryId].consolefonts)
        \o WriteRanks("timezones", "timezone", "timezoneId",
                      _territories_db[territoryId].timezones))
    \o Blank

_write_territories_file ==
    Element("territories",
        Blank \o ConcatAll([i \in 1..Len(SortedKeys(_territories_db)) |->
                                WriteTerritory(SortedKeys(_territories_db)[i])]))
    \o Blank

WriteLanguage(languageId) ==
    Element("language",
        Blank
        \o Element("languageId", Text(languageId)) \o Blank
        \o Element("iso639-1", Text(str(_languages_db[languageId].iso639_1))) \o Blank
        \o Element("iso639-2-t", Text(str(_languages_db[languageId].iso639_2_t))) \o Blank
        \o Element("iso639-2-b", Text(str(_languages_db[languageId].iso639_2_b))) \o Blank
        \o WriteNames(_languages_db[languageId].names)
        \o WriteRanks("locales", "locale", "localeId", _languages_db[languageId].locales)
        \o WriteRanks("territories", "territory", "territoryId",
                      _languages_db[languageId].territories)
        \o WriteRanks("keyboards", "keyboard", "keyboardId",
                      _languages_db[languageId].keyboards)
        \o WriteRanks("consolefonts", "consolefont", "consolefontId",
                      _languages_db[languageId].consolefonts)
        \o WriteRanks("timezones", "timezone", "timezoneId",
                      _languages_db[languageId].timezones))
    \o Blank

_write_languages_file ==
    Element("languages",
        Blank \o ConcatAll([i \in 1..Len(SortedKeys(_languages_db)) |->
                                WriteLanguage(SortedKeys(_languages_db)[i])]))
    \o Blank

WriteKeyboard(keyboardId) ==
    Element("keyboard",
        Blank
        \o Element("keyboardId", Text(keyboardId)) \o Blank
        \o Element("description", Text(_keyboards_db[keyboardId].description)) \o Blank
        \o Element("ascii", Text(str_bool(_keyboards_db[keyboardId].ascii))) \o Blank
        \o (IF _keyboards_db[keyboardId].comment # None
            THEN Element("comment", Text(_keyboards_db[keyboardId].comment)) \o Blank
            ELSE <<>>)
        \o WriteRanks("languages", "language", "languageId",
                      _keyboards_db[keyboardId].languages)
        \o WriteRanks("territories", "territory", "territoryId",
                      _keyboards_db[keyboardId].territories))
    \o Blank

_write_keyboards_file ==
    Element("keyboards",
        Blank \o ConcatAll([i \in 1..Len(SortedKeys(_keyboards_db)) |->
                                WriteKeyboard(SortedKeys(_keyboards_db)[i])]))
    \o Blank

\* A writer raises when it concatenates or encodes a None: a translated
\* name that is None (AttributeError on .encode), a description that is
\* None (TypeError on +).
WriteTerritoriesRaises ==
    \E t \in DOMAIN _territories_db :
        \E k \in DOMAIN _territories_db[t].names : _territories_db[t].names[k] = None

WriteLanguagesRaises ==
    \E l \in DOMAIN _languages_db :
        \E k \in DOMAIN _languages_db[l].names : _languages_db[l].names[k] = None

WriteKeyboardsRaises ==
    \E k \in DOMAIN _keyboards_db : _keyboards_db[k].description = None

(***************************************************************************)
(* The SAX handlers.  A handler is the record of its attributes; while it  *)
(* parses, st.handler is that record and st.db the table it fills.         *)
(***************************************************************************)
\* dict[key] = value
SetItem(dict, key, value) ==
    [k \in (DOMAIN dict) \cup {key} |-> IF k = key THEN value ELSE dict[k]]

\* LangtableContentHandler.characters: the text is appended to the
\* attribute _save_to names, if it names one.
characters(self, content) ==
    IF self._save_to = "None" THEN self
    ELSE [self EXCEPT ![self._save_to] = IF Truthy(@) THEN @ \o content ELSE content]

TerritoriesContentHandler ==
    [_save_to |-> "None", _territoryId |-> None, _item_id |-> None, _item_rank |-> None,
     _item_name |-> None, _names |-> None, _locales |-> None, _languages |-> None,
     _keyboards |-> None, _consolefonts |-> None, _timezones |-> None]

TerritoriesStartElement(self, name) ==
    IF name = "territory"
    THEN [self EXCEPT !._names = EmptyDict, !._locales = EmptyDict,
                      !._languages = EmptyDict, !._keyboards = EmptyDict,
                      !._consolefonts = EmptyDict, !._timezones = EmptyDict]
    ELSE IF name = "territoryId" THEN [self EXCEPT !._save_to = "_territoryId"]
    ELSE IF name \in {"languageId", "localeId", "keyboardId", "consolefontId", "timezoneId"}
    THEN [self EXCEPT !._save_to = "_item_id"]
    ELSE IF name = "trName" THEN [self EXCEPT !._save_to = "_item_name"]
    ELSE IF name = "rank" THEN [self EXCEPT !._save_to = "_item_rank"]
    ELSE self

\* _clear_item of the territories and of the languages handler.
ClearItem(self) == [self EXCEPT !._item_id = None, !._item_name = None, !._item_rank = None]

\* endElement behind its first line, self._save_to = None.
TerritoriesEndSaved(self, db, name) ==
    IF name = "territory"
    THEN [handler |-> [self EXCEPT !._territoryId = None, !._names = None,
                                   !._locales = None, !._languages = None,
                                   !._keyboards = None, !._consolefonts = None,
                                   !._timezones = None],
          db |-> SetItem(db, str(self._territoryId),
                    [names |-> self._names, locales |-> self._locales,
                     languages |-> self._languages, keyboards |-> self._keyboards,
                     consolefonts |-> self._consolefonts, timezones |-> self._timezones])]
    ELSE IF name = "name"
    THEN [handler |-> ClearItem([self EXCEPT
                        !._names = SetItem(@, str(self._item_id), self._item_name)]),
          db |-> db]
    ELSE IF name = "locale"
    THEN [handler |-> ClearItem([self EXCEPT
                        !._locales = SetItem(@, str(self._item_id), int(self._item_rank))]),
          db |-> db]
    ELSE IF name = "language"
    THEN [handler |-> ClearItem([self EXCEPT
                        !._languages = SetItem(@, str(self._item_id), int(self._item_rank))]),
          db |-> db]
    ELSE IF name = "keyboard"
    THEN [handler |-> ClearItem([self EXCEPT
                        !._keyboards = SetItem(@, str(self._item_id), int(self._item_rank))]),
          db |-> db]
    ELSE IF name = "consolefont"
    THEN [handler |-> ClearItem([self EXCEPT
                        !._consolefonts = SetItem(@, str(self._item_id),
                                                  int(self._item_rank))]),
          db |-> db]
    ELSE IF name = "timezone"
    THEN [handler |-> ClearItem([self EXCEPT
                        !._timezones = SetItem(@, str(self._item_id), int(self._item_rank))]),
          db |-> db]
    ELSE [handler |-> self, db |-> db]

TerritoriesEndElement(self, db, name) ==
    TerritoriesEndSaved([self EXCEPT !._save_to = "None"], db, name)

LanguagesContentHandler ==
    [_save_to |-> "None", _languageId |-> None, _iso639_1 |-> None, _iso639_2_t |-> None,
     _iso639_2_b |-> None, _item_id |-> None, _item_rank |-> None, _item_name |-> None,
     _in_names |-> FALSE, _names |-> None, _locales |-> None, _territories |-> None,
     _keyboards |-> None, _consolefonts |-> None, _timezones |-> None]

LanguagesStartElement(self, name) ==
    IF name = "language"
    THEN [self EXCEPT !._names = EmptyDict, !._locales = EmptyDict,
                      !._territories = EmptyDict, !._keyboards = EmptyDict,
                      !._consolefonts = EmptyDict, !._timezones = EmptyDict]
    ELSE IF name = "languageId" /\ ~self._in_names
    THEN [self EXCEPT !._save_to = "_languageId"]
    ELSE IF name = "iso639-1" THEN [self EXCEPT !._save_to = "_iso639_1"]
    ELSE IF name = "iso639-2-t" THEN [self EXCEPT !._save_to = "_iso639_2_t"]
    ELSE IF name = "iso639-2-b" THEN [self EXCEPT !._save_to = "_iso639_2_b"]
    ELSE IF name = "names" THEN [self EXCEPT !._in_names = TRUE]
    ELSE IF name \in {"localeId", "territoryId", "keyboardId", "consolefontId", "timezoneId"}
    THEN [self EXCEPT !._save_to = "_item_id"]
    ELSE IF name = "languageId" /\ self._in_names
    THEN [self EXCEPT !._save_to = "_item_id"]
    ELSE IF name = "trName" THEN [self EXCEPT !._save_to = "_item_name"]
    ELSE IF name = "rank" THEN [self EXCEPT !._save_to = "_item_rank"]
    ELSE self

LanguagesEndSaved(self, db, name) ==
    IF name = "language"
    THEN [handler |-> [self EXCEPT !._languageId = None, !._names = None,
                                   !._locales = None, !._territories = None,
                                   !._keyboards = None, !._consolefonts = None,
                                   !._timezones = None],
          db |-> SetItem(db, str(self._languageId),
                    [iso639_1 |-> self._iso639_1, iso639_2_t |-> self._iso639_2_t,
                     iso639_2_b |-> self._iso639_2_b, names |-> self._names,
                     locales |-> self._locales, territories |-> self._territories,
                     keyboards |-> self._keyboards, consolefonts |-> self._consolefonts,
                     timezones |-> self._timezones])]
    ELSE IF name = "names"
    THEN [handler |-> [self EXCEPT !._in_names = FALSE], db |-> db]
    ELSE IF name = "name"
    THEN [handler |-> ClearItem([self EXCEPT
                        !._names = SetItem(@, str(self._item_id), self._item_name)]),
          db |-> db]
    ELSE IF name = "locale"
    THEN [handler |-> ClearItem([self EXCEPT
                        !._locales = SetItem(@, str(self._item_id), int(self._item_rank))]),
          db |-> db]
    ELSE IF name = "territory"
    THEN [handler |-> ClearItem([self EXCEPT
                        !._territories = SetItem(@, str(self._item_id),
                                                 int(self._item_rank))]),
          db |-> db]
    ELSE IF name = "keyboard"
    THEN [handler |-> ClearItem([self EXCEPT
                        !._keyboards = SetItem(@, str(self._item_id), int(self._item_rank))]),
          db |-> db]
    ELSE IF name = "consolefont"
    THEN [handler |-> ClearItem([self EXCEPT
                        !._consolefonts = SetItem(@, str(self._item_id),
                                                  int(self._item_rank))]),
          db |-> db]
    ELSE IF name = "timezone"
    THEN [handler |-> ClearItem([self EXCEPT
                        !._timezones = SetItem(@, str(self._item_id), int(self._item_rank))]),
          db |-> db]
    ELSE [handler |-> self, db |-> db]

LanguagesEndElement(self, db, name) ==
    LanguagesEndSaved([self EXCEPT !._save_to = "None"], db, name)

KeyboardsContentHandler ==
    [_save_to |-> "None", _keyboardId |-> None, _description |-> None, _ascii |-> None,
     _comment |-> None, _item_id |-> None, _item_rank |-> None, _languages |-> None,
     _territories |-> None]

KeyboardsStartElement(self, name) ==
    IF name = "keyboard"
    THEN [self EXCEPT !._languages = EmptyDict, !._territories = EmptyDict]
    ELSE IF name = "keyboardId" THEN [self EXCEPT !._save_to = "_keyboardId"]
    ELSE IF name = "description" THEN [self EXCEPT !._save_to = "_description"]
    ELSE IF name = "ascii" THEN [self EXCEPT !._save_to = "_ascii"]
    ELSE IF name = "comment" THEN [self EXCEPT !._save_to = "_comment"]
    ELSE IF name \in {"languageId", "territoryId"} THEN [self EXCEPT !._save_to = "_item_id"]
    ELSE IF name = "rank" THEN [self EXCEPT !._save_to = "_item_rank"]
    ELSE self

\* _clear_item of the keyboards handler.
KeyboardsClearItem(self) == [self EXCEPT !._item_id = None, !._item_rank = None]

KeyboardsEndSaved(self, db, name) ==
    IF name = "keyboard"
    THEN [handler |-> [self EXCEPT !._keyboardId = None, !._description = None,
                                   !._ascii = None, !._comment = None,
                                   !._languages = None, !._territories = None],
          db |-> SetItem(db, str(self._keyboardId),
                    [description |-> self._description,
                     ascii |-> self._ascii = <<"T", "r", "u", "e">>,
                     comment |-> self._comment, languages |-> self._languages,
                     territories |-> self._territories])]
    ELSE IF name = "language"
    THEN [handler |-> KeyboardsClearItem([self EXCEPT
                        !._languages = SetItem(@, str(self._item_id), int(self._item_rank))]),
          db |-> db]
    ELSE IF name = "territory"
    THEN [handler |-> KeyboardsClearItem([self EXCEPT
                        !._territories = SetItem(@, str(self._item_id),
                                                 int(self._item_rank))]),
          db |-> db]
    ELSE [handler |-> self, db |-> db]

KeyboardsEndElement(self, db, name) ==
    KeyboardsEndSaved([self EXCEPT !._save_to = "None"], db, name)

\* One event handed by expat to the handler of the given class.
HandleEvent(class, st, e) ==
    IF e.event = "characters"
    THEN [handler |-> characters(st.handler, e.content), db |-> st.db]
    ELSE IF e.event = "startElement"
    THEN [handler |-> IF class = "TerritoriesContentHandler"
                      THEN TerritoriesStartElement(st.handler, e.name)
                      ELSE IF class = "LanguagesContentHandler"
                      THEN LanguagesStartElement(st.handler, e.name)
                      ELSE KeyboardsStartElement(st.handler, e.name),
          db |-> st.db]
    ELSE IF class = "TerritoriesContentHandler"
    THEN TerritoriesEndElement(st.handler, st.db, e.name)
    ELSE IF class = "LanguagesContentHandler"
    THEN LanguagesEndElement(st.handler, st.db, e.name)
    ELSE KeyboardsEndElement(st.handler, st.db, e.name)

(***************************************************************************)
(* Writing the catalog files and reading them back                         *)
(***************************************************************************)
\* The names mappings of the tables that are written.
FileNames == {EmptyDict, [k \in {sr} |-> <<"S", "r", "p">>]}

FileTerritoryTables ==
    {EmptyDict} \cup
    {[k \in {RS} |-> territory_db_item(names, ranks)] :
        names \in FileNames, ranks \in RankMappings(0..MaxRank)}

\* Language entries whose ISO 639 codes are absent, and entries that have them.
FileLanguageTables ==
    {EmptyDict} \cup
    {[k \in {sr} |-> [language_db_item(names, ranks) EXCEPT
                        !.iso639_1 = iso, !.iso639_2_t = iso, !.iso639_2_b = iso]] :
        names \in FileNames, ranks \in RankMappings(0..MaxRank), iso \in {None, sr}}

FileKeyboardTables ==
    {EmptyDict} \cup
    {[k \in {jp} |-> [keyboard_db_item(ascii) EXCEPT
                        !.description = <<"J">>, !.comment = comment,
                        !.languages = ranks]] :
        ascii \in BOOLEAN, comment \in {None, <<"c">>}, ranks \in RankMappings(1..MaxRank)}

\* One of the tables is loaded, the other two are empty.
InitFiles ==
    /\ Idle
    /\ \/ /\ _territories_db \in FileTerritoryTables
          /\ _languages_db = EmptyDict
          /\ _keyboards_db = EmptyDict
       \/ /\ _territories_db = EmptyDict
          /\ _languages_db \in FileLanguageTables
          /\ _keyboards_db = EmptyDict
       \/ /\ _territories_db = EmptyDict
          /\ _languages_db = EmptyDict
          /\ _keyboards_db \in FileKeyboardTables

\* A writer is called: result is the file it wrote, or pc tells that it
\* raised.
WriteFile(function, raises, file) ==
    /\ pc = "idle"
    /\ pc' = IF raises THEN "raised" ELSE function
    /\ args' = [function |-> function]
    /\ locals' = NoCall
    /\ result' = IF raises THEN None ELSE file
    /\ UNCHANGED tables

WriteTerritoriesFile ==
    WriteFile("_write_territories_file", WriteTerritoriesRaises, _write_territories_file)

WriteLanguagesFile ==
    WriteFile("_write_languages_file", WriteLanguagesRaises, _write_languages_file)

WriteKeyboardsFile ==
    WriteFile("_write_keyboards_file", WriteKeyboardsRaises, _write_keyboards_file)

\* The table a handler class fills.
TableOf(class) ==
    IF class = "TerritoriesContentHandler" THEN _territories_db
    ELSE IF class = "LanguagesContentHandler" THEN _languages_db
    ELSE _keyboards_db

\* _expat_parse of the file just written, in a new process whose table is
\* empty: a handler of the class is made and expat starts at the first
\* event.  locals keeps the table that was written.
ExpatParse(writer, class, handler) ==
    /\ pc = writer
    /\ pc' = "_expat_parse"
    /\ args' = [function |-> "_expat_parse", file |-> result, class |-> class]
    /\ locals' = [function |-> "_expat_parse", written |-> TableOf(class),
                  handler |-> handler, n |-> 1]
    /\ result' = None
    /\ _territories_db' = IF class = "TerritoriesContentHandler" THEN EmptyDict
                          ELSE _territories_db
    /\ _languages_db' = IF class = "LanguagesContentHandler" THEN EmptyDict
                        ELSE _languages_db
    /\ _keyboards_db' = IF class = "KeyboardsContentHandler" THEN EmptyDict
                        ELSE _keyboards_db

ReadTerritoriesFile ==
    ExpatParse("_write_territories_file", "TerritoriesContentHandler",
               TerritoriesContentHandler)

ReadLanguagesFile ==
    ExpatParse("_write_languages_file", "LanguagesContentHandler", LanguagesContentHandler)

ReadKeyboardsFile ==
    ExpatParse("_write_keyboards_file", "KeyboardsContentHandler", KeyboardsContentHandler)

\* The handler and the table as a callback leaves them.
Handled(st) ==
    /\ pc' = pc
    /\ args' = args
    /\ locals' = [locals EXCEPT !.handler = st.handler, !.n = @ + 1]
    /\ result' = result
    /\ _territories_db' = IF args.class = "TerritoriesContentHandler" THEN st.db
                          ELSE _territories_db
    /\ _languages_db' = IF args.class = "LanguagesContentHandler" THEN st.db
                        ELSE _languages_db
    /\ _keyboards_db' = IF args.class = "KeyboardsContentHandler" THEN st.db
                        ELSE _keyboards_db

\* expat calls the handler with the next event of the file.
Callback(event) ==
    /\ pc = "_expat_parse"
    /\ locals.n <= Len(args.file)
    /\ args.file[locals.n].event = event
    /\ Handled(HandleEvent(args.class,
                           [handler |-> locals.handler, db |-> TableOf(args.class)],
                           args.file[locals.n]))

startElement == Callback("startElement")

endElement == Callback("endElement")

Characters == Callback("characters")

\* The end of the file: _expat_parse returns.
ExpatParseReturn ==
    /\ pc = "_expat_parse"
    /\ locals.n > Len(args.file)
    /\ pc' = args.class
    /\ locals' = [function |-> "_expat_parse", written |-> locals.written]
    /\ UNCHANGED <<args, result, tables>>

\* A writer or the parser returns to its caller; expat is not left before
\* the end of the file.
FilesReturn == pc # "_expat_parse" /\ Return

NextFiles ==
    \/ WriteTerritoriesFile
    \/ WriteLanguagesFile
    \/ WriteKeyboardsFile
    \/ ReadTerritoriesFile
    \/ ReadLanguagesFile
    \/ ReadKeyboardsFile
    \/ startElement
    \/ endElement
    \/ Characters
    \/ ExpatParseReturn
    \/ FilesReturn

SpecFiles == InitFiles /\ [][NextFiles]_vars

(***************************************************************************)
(* C21: the files the three writers write are in the format the SAX        *)
(* handlers read: parsing a written file into an empty table gives the     *)
(* table that was written, with every names mapping and every rank         *)
(* mapping.                                                                *)
(***************************************************************************)
ReadBack == pc \in {"TerritoriesContentHandler", "LanguagesContentHandler",
                    "KeyboardsContentHandler"}

C21_WrittenFilesReadBack ==
    /\ pc = "TerritoriesContentHandler" => _territories_db = locals.written
    /\ pc = "LanguagesContentHandler" => _languages_db = locals.written
    /\ pc = "KeyboardsContentHandler" => _keyboards_db = locals.written

\* What does come back: the ids and the rank mappings.
RanksReadBack ==
    /\ pc = "TerritoriesContentHandler" =>
        /\ DOMAIN _territories_db = DOMAIN locals.written
        /\ \A t \in DOMAIN _territories_db :
            /\ _territories_db[t].locales = locals.written[t].locales
            /\ _territories_db[t].keyboards = locals.written[t].keyboards
    /\ pc = "LanguagesContentHandler" =>
        /\ DOMAIN _languages_db = DOMAIN locals.written
        /\ \A l \in DOMAIN _languages_db :
            /\ _languages_db[l].locales = locals.written[l].locales
            /\ _languages_db[l].keyboards = locals.written[l].keyboards
    /\ pc = "KeyboardsContentHandler" => _keyboards_db = locals.written

(***************************************************************************)
(* The call stack of language_name                                         *)
(***************************************************************************)
\* The recursion depth up to which the stack is followed.
MaxDepth == 2

\* The recursive call with the territory of the subject passed on.
RecursiveCallKeepsTerritory(p, q) == <<p[1], None, p[3], q[1], q[2], q[3]>>

\* "lname = language_name(languageId=languageId, languageIdQuery=...,
\* scriptIdQuery=..., territoryIdQuery=...)": the six arguments of the call,
\* scriptId and territoryId at their default None.
RecursiveCall(p, q) == <<p[1], None, None, q[1], q[2], q[3]>>

\* The frame of a call behind the two calls of _parse_and_split_languageId,
\* which returned p and q, and the endonym default.
FrameOf(p, q) ==
    [subject |-> p, query |-> EndonymDefault(p, q), called |-> FALSE, lname |-> None]

\* The frame of language_name called with the six arguments c.
Frame(c) ==
    FrameOf(_parse_and_split_languageId(c[1], c[2], c[3]),
            _parse_and_split_languageId(c[4], c[5], c[6]))

\* The frame gets to the recursive call: language and territory are given
\* and none of the blocks above the call returned.
Recurses(frame) ==
    /\ Truthy(frame.subject[1])
    /\ Truthy(frame.subject[3])
    /\ SubjectSteps(frame.subject, frame.query, Miss).step \notin 1..3

\* What the frame returns, lname being what its recursive call returned.
FrameValue(frame) ==
    SubjectSteps(frame.subject, frame.query,
        IF Truthy(frame.subject[1]) /\ Truthy(frame.subject[3])
        THEN Synthesize(frame.lname,
                        territory_name(frame.subject[3], frame.query[1], frame.query[2],
                                       frame.query[3]))
        ELSE Miss).value

Top == locals.stack[Len(locals.stack)]

Running == pc = "in language_name"

\* The frame on top is at its recursive call; the model follows the stack
\* up to MaxDepth recursive calls.
CanRecurse == ~Top.called /\ Recurses(Top) /\ Len(locals.stack) <= MaxDepth

\* The frame on top is at one of its returns.
CanReturn == Top.called \/ ~Recurses(Top)

\* The language tables of the name queries, with the territory table empty
\* or holding a name under every key; no keyboards.
InitRecursion ==
    /\ Idle
    /\ _languages_db \in LanguageTables
    /\ _territories_db \in
            {EmptyDict, [k \in {RS} |-> territory_db_item([n \in NameKeys |-> NameOf(RS, n)],
                                                          NamedRanks)]}
    /\ _keyboards_db = EmptyDict

\* language_name is called from outside.
LanguageNameCall ==
    /\ pc = "idle"
    /\ \E a \in QueryArguments, q \in NameQueryArguments :
        /\ pc' = "in language_name"
        /\ args' = [function |-> "language_name", languageId |-> a[1], scriptId |-> a[2],
                    territoryId |-> a[3], languageIdQuery |-> q[1],
                    scriptIdQuery |-> q[2], territoryIdQuery |-> q[3]]
        /\ locals' = [function |-> "language_name", depth |-> 0, steps |-> 0,
                      stack |-> <<Frame(<<a[1], a[2], a[3], q[1], q[2], q[3]>>)>>]
        /\ result' = None
        /\ UNCHANGED tables

\* The frame on top calls language_name: a new frame is pushed.
LanguageNameRecurse ==
    /\ Running
    /\ CanRecurse
    /\ locals' = [locals EXCEPT
                    !.steps = @ + 1,
                    !.depth = IF Len(locals.stack) > @ THEN Len(locals.stack) ELSE @,
                    !.stack = [@ EXCEPT ![Len(@)].called = TRUE]
                              \o <<Frame(RecursiveCall(Top.subject, Top.query))>>]
    /\ UNCHANGED <<pc, args, result, tables>>

\* The frame on top, itself a recursive call, returns: its caller has lname.
LanguageNameInnerReturn ==
    /\ Running
    /\ Len(locals.stack) > 1
    /\ CanReturn
    /\ locals' = [locals EXCEPT
                    !.steps = @ + 1,
                    !.stack = [SubSeq(@, 1, Len(@) - 1) EXCEPT
                                ![Len(@) - 1].lname = FrameValue(Top)]]
    /\ UNCHANGED <<pc, args, result, tables>>

\* The outermost frame returns.
LanguageNameOuterReturn ==
    /\ Running
    /\ Len(locals.stack) = 1
    /\ CanReturn
    /\ pc' = "language_name"
    /\ result' = FrameValue(Top)
    /\ locals' = [locals EXCEPT !.stack = <<>>]
    /\ UNCHANGED <<args, tables>>

\* The caller takes the result.
RecursionReturn == pc = "language_name" /\ Return

NextRecursion ==
    \/ LanguageNameCall
    \/ LanguageNameRecurse
    \/ LanguageNameInnerReturn
    \/ LanguageNameOuterReturn
    \/ RecursionReturn

SpecRecursion == InitRecursion /\ [][NextRecursion]_vars

\* The stack gives what the recursive operator gives.
StackAgreesWithOperator ==
    pc = "language_name" =>
        result = language_name(args.languageId, args.scriptId, args.territoryId,
                               args.languageIdQuery, args.scriptIdQuery,
                               args.territoryIdQuery).value

\* At most one recursive call is open, and the frame of a recursive call
\* has a subject without script and territory and does not recurse.
DepthAtMostOne ==
    (Running \/ pc = "language_name") =>
        /\ Len(locals.stack) <= 2
        /\ locals.depth <= 1
        /\ \A i \in 2..Len(locals.stack) :
            /\ locals.stack[i].subject[2] = None
            /\ locals.stack[i].subject[3] = None
            /\ ~Recurses(locals.stack[i])

(***************************************************************************)
(* C23: language_name always terminates.  Its recursive call passes no     *)
(* script and no territory, the subject of that call has no territory      *)
(* after it is normalised again, so the recursion is never deeper than one *)
(* call.  While a call runs, the frame on top always has a step to take,   *)
(* a recursive call or a return, and a call takes at most two such steps   *)
(* before its outermost frame returns.                                     *)
(***************************************************************************)
C23_LanguageNameTerminates ==
    /\ DepthAtMostOne
    /\ Running => /\ CanRecurse \/ CanReturn
                  /\ locals.steps <= 2

\* A call that recursed once and returned the label built from lname.
C23_Witness ==
    /\ pc = "language_name"
    /\ locals.depth = 1
    /\ IsLabel(result)

====
